---- MODULE Spec2Model ----
(***************************************************************************)
(* The vote_for_pandas spider (src/src/spider.py), its downloader          *)
(* middleware (src/src/middlewares.py) and its extraction routines         *)
(* (src/src/extractor.py).                                                 *)
(*                                                                         *)
(* One transaction per voting group: form page -> hastorni.js ->           *)
(* daxiongmao.js -> vote.  The crawl engine is the environment: it pulls   *)
(* the start requests, passes every request through process_request,       *)
(* and hands each response (or, for a request with an errback, each        *)
(* failure) to the callback named by the request.  A callback runs to      *)
(* completion before the next one starts.                                  *)
(*                                                                         *)
(* Text.  A Python str is a sequence of tokens.  A token is one character, *)
(* or a run of characters that no routine of the program looks into (a     *)
(* word, a server-issued value, a literal the regular expressions match as *)
(* a whole).  Strings the program holds as constants (group names, user    *)
(* agents, operating systems) are TLA+ strings; Chars gives their          *)
(* characters.                                                             *)
(***************************************************************************)
EXTENDS Integers, Sequences, FiniteSets, TLC

(***************************************************************************)
(* Bounds of the model.                                                    *)
(***************************************************************************)
\* start requests the engine pulls from start_requests (of the five)
MaxStarted == 2
\* the same in a traced crawl
MaxTraced == 1
\* entries of all_platforms that random.choice can return (of the fourteen)
NumPlatforms == 2
\* restarts (handle_vote_failure calls) over the whole crawl
MaxRestarts == 1
\* tokens of a Set-Cookie header value given to get_session_cookies
MaxHeaderLen == 5
\* characters of a group name given to get_rats_hash
MaxNameLen == 3
\* calls of the extraction routines in a row
MaxCalls == 3

VARIABLES
    final_decision, \* spider argument: the vote of the fifth group
    started,        \* start requests pulled so far
    status,         \* per group: Unsent, Pending, Accepted, ElectionClosed, Failed
    req,            \* per group: the request that is scheduled or in flight
    attempt,        \* per group: calls of send_group_to_vote so far
    results,        \* the results/ directory: file name -> content
    now,            \* the wall clock at the last write to results/, in seconds
    traced,         \* whether the crawl keeps the record last
    last,           \* traced crawl: the callback or errback that ran last, what
                    \* it was given and what it raised
    outstanding,    \* per group: requests yielded to the engine and not yet
                    \* handed back as a response or a failure
    votes,          \* per group: submissions the server has recorded
    cookie_header,  \* get_session_cookies alone: the headers given
    cookie_result,  \* get_session_cookies alone: what it returned or raised
    called,         \* the extraction routines alone: the routine called last,
                    \* what it was given and what it returned or raised
    calls           \* the extraction routines alone: the calls so far, in order

vars == <<final_decision, started, status, req, attempt, results, now, traced, last,
          outstanding, votes, cookie_header, cookie_result, called, calls>>

crawl_vars == <<final_decision, started, status, req, attempt, results, now, traced, last,
                outstanding, votes>>
cookie_vars == <<cookie_header, cookie_result>>
call_vars == <<cookie_header, cookie_result, called, calls>>

(***************************************************************************)
(* Python values.                                                          *)
(***************************************************************************)
\* Optional values: None is the empty tuple, a present value v is <<v>>.
None == <<>>
Some(v) == <<v>>

\* The outcome of a call: a returned value or a raised exception.
Return(v) == [exc |-> "", val |-> v]
Raise(e, m) == [exc |-> e, msg |-> m]
Raised(r) == r.exc # ""

EmptyDict == <<>>

dict_get(d, k) == IF k \in DOMAIN d THEN Some(d[k]) ELSE None

Min(S) == CHOOSE x \in S : \A y \in S : x <= y

\* the first index >= from at which t holds x, or 0; the text is searched in
\* stretches of growing width
RECURSIVE Find(_, _, _, _)
Find(t, x, from, width) ==
    IF from > Len(t) THEN 0
    ELSE LET upto == IF from + width - 1 < Len(t) THEN from + width - 1 ELSE Len(t)
             found == {i \in from..upto : t[i] = x}
         IN  IF found # {} THEN Min(found) ELSE Find(t, x, upto + 1, 2 * width)

IndexOf(t, x, from) == Find(t, x, from, 2)

\* str.split(sep), sep a single token
RECURSIVE split(_, _)
split(t, sep) ==
    LET i == IndexOf(t, sep, 1)
    IN  IF i = 0
        THEN <<t>>
        ELSE <<SubSeq(t, 1, i - 1)>> \o split(SubSeq(t, i + 1, Len(t)), sep)

\* str.startswith(prefix)
startswith(t, prefix) ==
    /\ Len(t) >= Len(prefix)
    /\ SubSeq(t, 1, Len(prefix)) = prefix

\* ''.join(parts), the two halves of the list joined apart
RECURSIVE Cat(_)
Cat(parts) ==
    IF parts = <<>> THEN <<>>
    ELSE IF Len(parts) = 1 THEN parts[1]
    ELSE LET half == Len(parts) \div 2
         IN  Cat(SubSeq(parts, 1, half)) \o Cat(SubSeq(parts, half + 1, Len(parts)))

\* sep.join(parts)
join(sep, parts) ==
    IF parts = <<>> THEN <<>>
    ELSE Cat([i \in 1..(2 * Len(parts) - 1) |->
                IF i % 2 = 1 THEN parts[(i + 1) \div 2] ELSE sep])

(***************************************************************************)
(* extractor.py, Parser.Common                                             *)
(***************************************************************************)
\* scrapy Headers.get: a header holds a list of values, get gives the last
headers_get(headers, name) ==
    IF name \in DOMAIN headers /\ headers[name] # <<>>
    THEN Some(headers[name][Len(headers[name])])
    ELSE None

\* get_session_cookies that gives an empty session for a header that sets
\* none
get_session_cookies_or_empty(headers) ==
    LET set_cookie_header == headers_get(headers, "Set-Cookie")
    IN  IF set_cookie_header = None
        THEN Raise("ValueError", "No 'Set-Cookie' header found in the response.")
        ELSE
        LET cookies == split(set_cookie_header[1], ";")
            found == {i \in 1..Len(cookies) : startswith(cookies[i], <<"session", "=">>)}
        IN  IF found = {}
            THEN Return(<<<<"session">>, <<>>>>)
            ELSE Return(<<<<"session">>, SubSeq(cookies[Min(found)], 3, Len(cookies[Min(found)]))>>)

get_session_cookies(headers) ==
    LET set_cookie_header == headers_get(headers, "Set-Cookie")
    IN  IF set_cookie_header = None
        THEN Raise("ValueError", "No 'Set-Cookie' header found in the response.")
        ELSE
        LET cookies == split(set_cookie_header[1], ";")
            found == {i \in 1..Len(cookies) : startswith(cookies[i], <<"session", "=">>)}
        IN  IF found = {}
            THEN Raise("ValueError", "Session cookie not found in Set-Cookie.")
            ELSE
            LET session_cookie == cookies[Min(found)]
                parts == split(session_cookie, "=")
            IN  \* key, value = session_cookie.split("=")
                IF Len(parts) # 2
                THEN Raise("ValueError", "too many values to unpack (expected 2)")
                ELSE Return(<<parts[1], parts[2]>>)

(***************************************************************************)
(* extractor.py, Parser.VotingPage                                         *)
(* A document is the sequence of its elements, each with the id of the     *)
(* element that encloses it, its tag and its attributes.                   *)
(***************************************************************************)
\* response.css("#<id> <tag>"): a list of the matching elements, never None
css(html, id, tag) == SelectSeq(html, LAMBDA e : e.within = id /\ e.tag = tag)

\* SelectorList.attrib: the attributes of the first element, {} for no element
attrib(selector_list) ==
    IF selector_list = <<>> THEN EmptyDict ELSE selector_list[1].attrib

get_carnivore_value(response) ==
    LET input_element == css(response.html, "carnivoreatingbambu", "input")
        input_element_is_None == FALSE
        value == dict_get(attrib(input_element), "value")
    IN  IF input_element_is_None
        THEN Raise("ValueError",
                   "Input element with id 'carnivoreatingbambu' not found in the response.")
        ELSE IF value = None
        THEN Raise("ValueError", "Value attribute not found in the input element.")
        ELSE Return(value[1])

(***************************************************************************)
(* re.search("(?<=prefix).*?(?=terminator)", text).  The prefix and the    *)
(* terminator are single tokens; "." does not match a line break.          *)
(***************************************************************************)
regex_between(text, prefix, terminator) ==
    LET \* the end of the match that starts after the prefix at i, or 0
        end(i) ==
            LET j == IndexOf(text, terminator, i + 1)
                n == IndexOf(text, "\n", i + 1)
            IN  IF j = 0 \/ (n # 0 /\ n < j) THEN 0 ELSE j
        starts == {i \in 1..Len(text) : text[i] = prefix /\ end(i) # 0}
    IN  IF starts = {}
        THEN None
        ELSE LET i == Min(starts)
             IN  Some(SubSeq(text, i + 1, end(i) - 1))

(***************************************************************************)
(* json.loads and json.dumps.  A JSON text is a sequence of the tokens     *)
(* [ ] { } , : " - 0..9, the words true, false and null, blanks and line   *)
(* breaks; any other token is a character run that is legal only inside a  *)
(* string.  Values: int, str, bool, null, list, dict (a dict keeps its     *)
(* keys in insertion order).                                               *)
(***************************************************************************)
Digit ==
    "0" :> 0 @@ "1" :> 1 @@ "2" :> 2 @@ "3" :> 3 @@ "4" :> 4 @@
    "5" :> 5 @@ "6" :> 6 @@ "7" :> 7 @@ "8" :> 8 @@ "9" :> 9

DigitChar == <<"0", "1", "2", "3", "4", "5", "6", "7", "8", "9">>

Whitespace == {" ", "\n"}

PyInt(n) == [t |-> "int", v |-> n]
PyStr(s) == [t |-> "str", v |-> s]
PyBool(b) == [t |-> "bool", v |-> b]
PyNone == [t |-> "null"]
PyList(s) == [t |-> "list", v |-> s]
PyDict(s) == [t |-> "dict", v |-> s]

\* d[key] = value on a dict held as a sequence of <<key, value>>
dict_set(items, key, value) ==
    IF \E i \in 1..Len(items) : items[i][1] = key
    THEN [i \in 1..Len(items) |->
            IF items[i][1] = key THEN <<key, value>> ELSE items[i]]
    ELSE Append(items, <<key, value>>)

\* int(digits) for a run of decimal digits
RECURSIVE to_int(_)
to_int(digits) ==
    IF digits = <<>> THEN 0
    ELSE 10 * to_int(SubSeq(digits, 1, Len(digits) - 1)) + Digit[digits[Len(digits)]]

\* str(n) for an int
RECURSIVE str_int(_)
str_int(n) ==
    IF n < 0 THEN <<"-">> \o str_int(0 - n)
    ELSE IF n < 10 THEN <<DigitChar[n + 1]>>
    ELSE str_int(n \div 10) \o <<DigitChar[(n % 10) + 1]>>

\* the first index >= i that holds no token of the set, Len(t) + 1 if none
RECURSIVE skip(_, _, _)
skip(t, i, set) ==
    IF i > Len(t) THEN Len(t) + 1
    ELSE IF t[i] \notin set THEN i
    ELSE skip(t, i + 1, set)

(***************************************************************************)
(* The parser.  A routine that reads a value from index i on gives         *)
(* Parsed(value, next), next the index after the value, or NoParse.  A     *)
(* routine with more than one step hands what a step found to the routine  *)
(* of the next step.                                                       *)
(***************************************************************************)
NoParse == [ok |-> FALSE]
Parsed(value, next) == [ok |-> TRUE, val |-> value, next |-> next]

\* the string that opens at i and closes at j (0: it does not close)
string_closed(t, i, j) ==
    IF j = 0 \/ \E k \in (i + 1)..(j - 1) : t[k] = "\n"
    THEN NoParse
    ELSE Parsed(PyStr(SubSeq(t, i + 1, j - 1)), j + 1)

parse_string(t, i) == string_closed(t, i, IndexOf(t, "\"", i + 1))

\* the number whose digits are at s..(e - 1)
number_of(t, s, e, sign) ==
    IF e = s THEN NoParse
    ELSE IF t[s] = "0" THEN Parsed(PyInt(0), s + 1)
    ELSE Parsed(PyInt(sign * to_int(SubSeq(t, s, e - 1))), e)

parse_number(t, i) ==
    IF t[i] = "-"
    THEN number_of(t, i + 1, skip(t, i + 1, DOMAIN Digit), 0 - 1)
    ELSE number_of(t, i, skip(t, i, DOMAIN Digit), 1)

RECURSIVE parse_value(_, _), parse_items(_, _, _, _)

\* a member, its key read, its value read
member_of(key, value) ==
    IF value.ok THEN Parsed(<<key.val.v, value.val>>, value.next) ELSE NoParse

\* a member, its key read, c the index of the token after the key
member_value(t, key, c) ==
    IF c <= Len(t) /\ t[c] = ":" THEN member_of(key, parse_value(t, c + 1)) ELSE NoParse

member_colon(t, key) ==
    IF key.ok THEN member_value(t, key, skip(t, key.next, Whitespace)) ELSE NoParse

member_key(t, j) ==
    IF j <= Len(t) /\ t[j] = "\"" THEN member_colon(t, parse_string(t, j)) ELSE NoParse

\* one "key": value member from index i on
parse_member(t, i) == member_key(t, skip(t, i, Whitespace))

NoItems == [ok |-> FALSE, closed |-> TRUE]

\* an item read, k the index of the token after it: "," or the closing token
item_end(t, closing, item, k) ==
    IF k <= Len(t) /\ t[k] \in {",", closing}
    THEN [ok |-> TRUE, items |-> <<item.val>>, next |-> k + 1, closed |-> t[k] = closing]
    ELSE NoItems

item_read(t, closing, item) ==
    IF item.ok THEN item_end(t, closing, item, skip(t, item.next, Whitespace)) ELSE NoItems

\* one item of a list ("]") or of a dict ("}") from index i on, with the
\* "," or the closing token after it
parse_item(t, i, closing) ==
    item_read(t, closing, IF closing = "]" THEN parse_value(t, i) ELSE parse_member(t, i))

items_joined(first, rest) ==
    IF rest.ok THEN [rest EXCEPT !.items = first.items \o @] ELSE rest

items_rest(t, closing, n, first) ==
    IF first.closed THEN first
    ELSE items_joined(first, parse_items(t, first.next, closing, n))

\* up to n items from index i on, stopping after the closing token: the
\* first half of the n, then the rest
parse_items(t, i, closing, n) ==
    IF n <= 1 THEN parse_item(t, i, closing)
    ELSE items_rest(t, closing, n - n \div 2, parse_items(t, i, closing, n \div 2))

\* dict(items): a later item of the same key replaces the value
RECURSIVE to_dict(_)
to_dict(items) ==
    IF items = <<>> THEN <<>>
    ELSE dict_set(to_dict(SubSeq(items, 1, Len(items) - 1)),
                  items[Len(items)][1], items[Len(items)][2])

container_of(closing, read) ==
    IF read.ok /\ read.closed
    THEN Parsed(IF closing = "]" THEN PyList(read.items) ELSE PyDict(to_dict(read.items)),
                read.next)
    ELSE NoParse

\* a list or a dict, k the index of the first token after the opening one
parse_container(t, closing, k) ==
    IF k > Len(t) THEN NoParse
    ELSE IF t[k] = closing
    THEN Parsed(IF closing = "]" THEN PyList(<<>>) ELSE PyDict(<<>>), k + 1)
    ELSE container_of(closing, parse_items(t, k, closing, Len(t) - k + 1))

\* the value that starts at j
value_at(t, j) ==
    IF j > Len(t) THEN NoParse
    ELSE IF t[j] = "\"" THEN parse_string(t, j)
    ELSE IF t[j] = "-" \/ t[j] \in DOMAIN Digit THEN parse_number(t, j)
    ELSE IF t[j] = "true" THEN Parsed(PyBool(TRUE), j + 1)
    ELSE IF t[j] = "false" THEN Parsed(PyBool(FALSE), j + 1)
    ELSE IF t[j] = "null" THEN Parsed(PyNone, j + 1)
    ELSE IF t[j] = "[" THEN parse_container(t, "]", skip(t, j + 1, Whitespace))
    ELSE IF t[j] = "{" THEN parse_container(t, "}", skip(t, j + 1, Whitespace))
    ELSE NoParse

parse_value(t, i) == value_at(t, skip(t, i, Whitespace))

loaded(text, value) ==
    IF value.ok /\ skip(text, value.next, Whitespace) > Len(text)
    THEN Return(value.val)
    ELSE Raise("JSONDecodeError", "Expecting value")

json_loads(text) == loaded(text, parse_value(text, 1))

RECURSIVE json_dumps(_)
json_dumps(value) ==
    CASE value.t = "int" -> str_int(value.v)
      [] value.t = "str" -> <<"\"">> \o value.v \o <<"\"">>
      [] value.t = "bool" -> IF value.v THEN <<"true">> ELSE <<"false">>
      [] value.t = "null" -> <<"null">>
      [] value.t = "list" ->
            <<"[">> \o join(<<",", " ">>,
                            [i \in 1..Len(value.v) |-> json_dumps(value.v[i])])
                    \o <<"]">>
      [] value.t = "dict" ->
            <<"{">> \o join(<<",", " ">>,
                            [i \in 1..Len(value.v) |->
                                <<"\"">> \o value.v[i][1] \o <<"\"", ":", " ">>
                                         \o json_dumps(value.v[i][2])])
                    \o <<"}">>

\* repr(value) and str(value)
RECURSIVE py_repr(_)
py_repr(value) ==
    CASE value.t = "int" -> str_int(value.v)
      [] value.t = "str" -> <<"'">> \o value.v \o <<"'">>
      [] value.t = "bool" -> IF value.v THEN <<"True">> ELSE <<"False">>
      [] value.t = "null" -> <<"None">>
      [] value.t = "list" ->
            <<"[">> \o join(<<",", " ">>,
                            [i \in 1..Len(value.v) |-> py_repr(value.v[i])])
                    \o <<"]">>
      [] value.t = "dict" ->
            <<"{">> \o join(<<",", " ">>,
                            [i \in 1..Len(value.v) |->
                                <<"'">> \o value.v[i][1] \o <<"'", ":", " ">>
                                        \o py_repr(value.v[i][2])])
                    \o <<"}">>

py_str(value) == IF value.t = "str" THEN value.v ELSE py_repr(value)

(***************************************************************************)
(* Characters and bytes.                                                   *)
(***************************************************************************)
\* the group names given to get_rats_hash alone: up to MaxNameLen letters
NameLetters == {"A", "B", "C"}
NameSpellings == UNION {[1..n -> NameLetters] : n \in 0..MaxNameLen}
RECURSIVE Spelled(_)
Spelled(letters) == IF letters = <<>> THEN "" ELSE letters[1] \o Spelled(Tail(letters))
Names == {Spelled(letters) : letters \in NameSpellings}

\* list(s) for the strings the program holds as constants and for the names
\* given to get_rats_hash alone
Chars ==
    [name \in Names |-> CHOOSE letters \in NameSpellings : Spelled(letters) = name]
    @@
    ("bearfoot_bearitone" :>
        <<"b", "e", "a", "r", "f", "o", "o", "t", "_", "b", "e", "a", "r", "i", "t", "o",
          "n", "e">>)
    @@
    ("bearium_bearon" :>
        <<"b", "e", "a", "r", "i", "u", "m", "_", "b", "e", "a", "r", "o", "n">>)
    @@
    ("stupandas_bamboozle" :>
        <<"s", "t", "u", "p", "a", "n", "d", "a", "s", "_", "b", "a", "m", "b", "o", "o",
          "z", "l", "e">>)
    @@
    ("bearing_embearass_goosebeary" :>
        <<"b", "e", "a", "r", "i", "n", "g", "_", "e", "m", "b", "e", "a", "r", "a", "s",
          "s", "_", "g", "o", "o", "s", "e", "b", "e", "a", "r", "y">>)
    @@
    ("beary_pawsitively_forbearance" :>
        <<"b", "e", "a", "r", "y", "_", "p", "a", "w", "s", "i", "t", "i", "v", "e", "l",
          "y", "_", "f", "o", "r", "b", "e", "a", "r", "a", "n", "c", "e">>)
    @@
    ("Win32" :>
        <<"W", "i", "n", "3", "2">>)
    @@
    ("Win64" :>
        <<"W", "i", "n", "6", "4">>)
    @@
    ("MacIntel" :>
        <<"M", "a", "c", "I", "n", "t", "e", "l">>)
    @@
    ("iPhone" :>
        <<"i", "P", "h", "o", "n", "e">>)
    @@
    ("iPad" :>
        <<"i", "P", "a", "d">>)
    @@
    ("Linux i686" :>
        <<"L", "i", "n", "u", "x", " ", "i", "6", "8", "6">>)
    @@
    ("Linux x86_64" :>
        <<"L", "i", "n", "u", "x", " ", "x", "8", "6", "_", "6", "4">>)
    @@
    ("FreeBSD i386" :>
        <<"F", "r", "e", "e", "B", "S", "D", " ", "i", "3", "8", "6">>)
    @@
    ("FreeBSD amd64" :>
        <<"F", "r", "e", "e", "B", "S", "D", " ", "a", "m", "d", "6", "4">>)
    @@
    ("OpenBSD i386" :>
        <<"O", "p", "e", "n", "B", "S", "D", " ", "i", "3", "8", "6">>)
    @@
    ("OpenBSD amd64" :>
        <<"O", "p", "e", "n", "B", "S", "D", " ", "a", "m", "d", "6", "4">>)
    @@
    ("SunOS i86pc" :>
        <<"S", "u", "n", "O", "S", " ", "i", "8", "6", "p", "c">>)
    @@
    ("SunOS sun4u" :>
        <<"S", "u", "n", "O", "S", " ", "s", "u", "n", "4", "u">>)
    @@
    ("Android" :>
        <<"A", "n", "d", "r", "o", "i", "d">>)
    @@
    ("Mozilla/5.0 (Windows NT 5.1 rv: 52.0) Gecko/20100101 Firefox/52.0" :>
        <<"M", "o", "z", "i", "l", "l", "a", "/", "5", ".", "0", " ", "(", "W", "i", "n",
          "d", "o", "w", "s", " ", "N", "T", " ", "5", ".", "1", " ", "r", "v", ":", " ",
          "5", "2", ".", "0", ")", " ", "G", "e", "c", "k", "o", "/", "2", "0", "1", "0",
          "0", "1", "0", "1", " ", "F", "i", "r", "e", "f", "o", "x", "/", "5", "2", ".",
          "0">>)
    @@
    ("Mozilla/5.0 (Windows NT 10.0; Win64; x64) AppleWebKit/537.36 (KHTML, like Gecko) Chrome/89.0.4389.82 Safari/537.36" :>
        <<"M", "o", "z", "i", "l", "l", "a", "/", "5", ".", "0", " ", "(", "W", "i", "n",
          "d", "o", "w", "s", " ", "N", "T", " ", "1", "0", ".", "0", ";", " ", "W", "i",
          "n", "6", "4", ";", " ", "x", "6", "4", ")", " ", "A", "p", "p", "l", "e", "W",
          "e", "b", "K", "i", "t", "/", "5", "3", "7", ".", "3", "6", " ", "(", "K", "H",
          "T", "M", "L", ",", " ", "l", "i", "k", "e", " ", "G", "e", "c", "k", "o", ")",
          " ", "C", "h", "r", "o", "m", "e", "/", "8", "9", ".", "0", ".", "4", "3", "8",
          "9", ".", "8", "2", " ", "S", "a", "f", "a", "r", "i", "/", "5", "3", "7", ".",
          "3", "6">>)
    @@
    ("Mozilla/5.0 (Macintosh; Intel Mac OS X 10_15_7) AppleWebKit/605.1.15 (KHTML, like Gecko) Version/14.0 Safari/605.1.15" :>
        <<"M", "o", "z", "i", "l", "l", "a", "/", "5", ".", "0", " ", "(", "M", "a", "c",
          "i", "n", "t", "o", "s", "h", ";", " ", "I", "n", "t", "e", "l", " ", "M", "a",
          "c", " ", "O", "S", " ", "X", " ", "1", "0", "_", "1", "5", "_", "7", ")", " ",
          "A", "p", "p", "l", "e", "W", "e", "b", "K", "i", "t", "/", "6", "0", "5", ".",
          "1", ".", "1", "5", " ", "(", "K", "H", "T", "M", "L", ",", " ", "l", "i", "k",
          "e", " ", "G", "e", "c", "k", "o", ")", " ", "V", "e", "r", "s", "i", "o", "n",
          "/", "1", "4", ".", "0", " ", "S", "a", "f", "a", "r", "i", "/", "6", "0", "5",
          ".", "1", ".", "1", "5">>)
    @@
    ("Mozilla/5.0 (iPhone; CPU iPhone OS 14_2 like Mac OS X) AppleWebKit/605.1.15 (KHTML, like Gecko) Version/14.0 Mobile/15E148 Safari/604.1" :>
        <<"M", "o", "z", "i", "l", "l", "a", "/", "5", ".", "0", " ", "(", "i", "P", "h",
          "o", "n", "e", ";", " ", "C", "P", "U", " ", "i", "P", "h", "o", "n", "e", " ",
          "O", "S", " ", "1", "4", "_", "2", " ", "l", "i", "k", "e", " ", "M", "a", "c",
          " ", "O", "S", " ", "X", ")", " ", "A", "p", "p", "l", "e", "W", "e", "b", "K",
          "i", "t", "/", "6", "0", "5", ".", "1", ".", "1", "5", " ", "(", "K", "H", "T",
          "M", "L", ",", " ", "l", "i", "k", "e", " ", "G", "e", "c", "k", "o", ")", " ",
          "V", "e", "r", "s", "i", "o", "n", "/", "1", "4", ".", "0", " ", "M", "o", "b",
          "i", "l", "e", "/", "1", "5", "E", "1", "4", "8", " ", "S", "a", "f", "a", "r",
          "i", "/", "6", "0", "4", ".", "1">>)
    @@
    ("Mozilla/5.0 (iPad; CPU OS 14_2 like Mac OS X) AppleWebKit/605.1.15 (KHTML, like Gecko) Version/14.0 Mobile/15E148 Safari/604.1" :>
        <<"M", "o", "z", "i", "l", "l", "a", "/", "5", ".", "0", " ", "(", "i", "P", "a",
          "d", ";", " ", "C", "P", "U", " ", "O", "S", " ", "1", "4", "_", "2", " ", "l",
          "i", "k", "e", " ", "M", "a", "c", " ", "O", "S", " ", "X", ")", " ", "A", "p",
          "p", "l", "e", "W", "e", "b", "K", "i", "t", "/", "6", "0", "5", ".", "1", ".",
          "1", "5", " ", "(", "K", "H", "T", "M", "L", ",", " ", "l", "i", "k", "e", " ",
          "G", "e", "c", "k", "o", ")", " ", "V", "e", "r", "s", "i", "o", "n", "/", "1",
          "4", ".", "0", " ", "M", "o", "b", "i", "l", "e", "/", "1", "5", "E", "1", "4",
          "8", " ", "S", "a", "f", "a", "r", "i", "/", "6", "0", "4", ".", "1">>)
    @@
    ("Mozilla/5.0 (X11; Linux i686; rv:52.0) Gecko/20100101 Firefox/52.0" :>
        <<"M", "o", "z", "i", "l", "l", "a", "/", "5", ".", "0", " ", "(", "X", "1", "1",
          ";", " ", "L", "i", "n", "u", "x", " ", "i", "6", "8", "6", ";", " ", "r", "v",
          ":", "5", "2", ".", "0", ")", " ", "G", "e", "c", "k", "o", "/", "2", "0", "1",
          "0", "0", "1", "0", "1", " ", "F", "i", "r", "e", "f", "o", "x", "/", "5", "2",
          ".", "0">>)
    @@
    ("Mozilla/5.0 (X11; Linux x86_64) AppleWebKit/537.36 (KHTML, like Gecko) Chrome/89.0.4389.82 Safari/537.36" :>
        <<"M", "o", "z", "i", "l", "l", "a", "/", "5", ".", "0", " ", "(", "X", "1", "1",
          ";", " ", "L", "i", "n", "u", "x", " ", "x", "8", "6", "_", "6", "4", ")", " ",
          "A", "p", "p", "l", "e", "W", "e", "b", "K", "i", "t", "/", "5", "3", "7", ".",
          "3", "6", " ", "(", "K", "H", "T", "M", "L", ",", " ", "l", "i", "k", "e", " ",
          "G", "e", "c", "k", "o", ")", " ", "C", "h", "r", "o", "m", "e", "/", "8", "9",
          ".", "0", ".", "4", "3", "8", "9", ".", "8", "2", " ", "S", "a", "f", "a", "r",
          "i", "/", "5", "3", "7", ".", "3", "6">>)
    @@
    ("Mozilla/5.0 (FreeBSD; U; FreeBSD i386; en-US) AppleWebKit/537.36 (KHTML, like Gecko) Chrome/79.0.3945.79 Safari/537.36" :>
        <<"M", "o", "z", "i", "l", "l", "a", "/", "5", ".", "0", " ", "(", "F", "r", "e",
          "e", "B", "S", "D", ";", " ", "U", ";", " ", "F", "r", "e", "e", "B", "S", "D",
          " ", "i", "3", "8", "6", ";", " ", "e", "n", "-", "U", "S", ")", " ", "A", "p",
          "p", "l", "e", "W", "e", "b", "K", "i", "t", "/", "5", "3", "7", ".", "3", "6",
          " ", "(", "K", "H", "T", "M", "L", ",", " ", "l", "i", "k", "e", " ", "G", "e",
          "c", "k", "o", ")", " ", "C", "h", "r", "o", "m", "e", "/", "7", "9", ".", "0",
          ".", "3", "9", "4", "5", ".", "7", "9", " ", "S", "a", "f", "a", "r", "i", "/",
          "5", "3", "7", ".", "3", "6">>)
    @@
    ("Mozilla/5.0 (FreeBSD; U; FreeBSD amd64; en-US) AppleWebKit/537.36 (KHTML, like Gecko) Chrome/79.0.3945.79 Safari/537.36" :>
        <<"M", "o", "z", "i", "l", "l", "a", "/", "5", ".", "0", " ", "(", "F", "r", "e",
          "e", "B", "S", "D", ";", " ", "U", ";", " ", "F", "r", "e", "e", "B", "S", "D",
          " ", "a", "m", "d", "6", "4", ";", " ", "e", "n", "-", "U", "S", ")", " ", "A",
          "p", "p", "l", "e", "W", "e", "b", "K", "i", "t", "/", "5", "3", "7", ".", "3",
          "6", " ", "(", "K", "H", "T", "M", "L", ",", " ", "l", "i", "k", "e", " ", "G",
          "e", "c", "k", "o", ")", " ", "C", "h", "r", "o", "m", "e", "/", "7", "9", ".",
          "0", ".", "3", "9", "4", "5", ".", "7", "9", " ", "S", "a", "f", "a", "r", "i",
          "/", "5", "3", "7", ".", "3", "6">>)
    @@
    ("Mozilla/5.0 (X11; OpenBSD i386; rv:52.0) Gecko/20100101 Firefox/52.0" :>
        <<"M", "o", "z", "i", "l", "l", "a", "/", "5", ".", "0", " ", "(", "X", "1", "1",
          ";", " ", "O", "p", "e", "n", "B", "S", "D", " ", "i", "3", "8", "6", ";", " ",
          "r", "v", ":", "5", "2", ".", "0", ")", " ", "G", "e", "c", "k", "o", "/", "2",
          "0", "1", "0", "0", "1", "0", "1", " ", "F", "i", "r", "e", "f", "o", "x", "/",
          "5", "2", ".", "0">>)
    @@
    ("Mozilla/5.0 (X11; OpenBSD amd64; rv:52.0) Gecko/20100101 Firefox/52.0" :>
        <<"M", "o", "z", "i", "l", "l", "a", "/", "5", ".", "0", " ", "(", "X", "1", "1",
          ";", " ", "O", "p", "e", "n", "B", "S", "D", " ", "a", "m", "d", "6", "4", ";",
          " ", "r", "v", ":", "5", "2", ".", "0", ")", " ", "G", "e", "c", "k", "o", "/",
          "2", "0", "1", "0", "0", "1", "0", "1", " ", "F", "i", "r", "e", "f", "o", "x",
          "/", "5", "2", ".", "0">>)
    @@
    ("Mozilla/5.0 (X11; SunOS i86pc) AppleWebKit/537.36 (KHTML, like Gecko) Chrome/89.0.4389.82 Safari/537.36" :>
        <<"M", "o", "z", "i", "l", "l", "a", "/", "5", ".", "0", " ", "(", "X", "1", "1",
          ";", " ", "S", "u", "n", "O", "S", " ", "i", "8", "6", "p", "c", ")", " ", "A",
          "p", "p", "l", "e", "W", "e", "b", "K", "i", "t", "/", "5", "3", "7", ".", "3",
          "6", " ", "(", "K", "H", "T", "M", "L", ",", " ", "l", "i", "k", "e", " ", "G",
          "e", "c", "k", "o", ")", " ", "C", "h", "r", "o", "m", "e", "/", "8", "9", ".",
          "0", ".", "4", "3", "8", "9", ".", "8", "2", " ", "S", "a", "f", "a", "r", "i",
          "/", "5", "3", "7", ".", "3", "6">>)
    @@
    ("Mozilla/5.0 (X11; SunOS sun4u) AppleWebKit/537.36 (KHTML, like Gecko) Chrome/89.0.4389.82 Safari/537.36" :>
        <<"M", "o", "z", "i", "l", "l", "a", "/", "5", ".", "0", " ", "(", "X", "1", "1",
          ";", " ", "S", "u", "n", "O", "S", " ", "s", "u", "n", "4", "u", ")", " ", "A",
          "p", "p", "l", "e", "W", "e", "b", "K", "i", "t", "/", "5", "3", "7", ".", "3",
          "6", " ", "(", "K", "H", "T", "M", "L", ",", " ", "l", "i", "k", "e", " ", "G",
          "e", "c", "k", "o", ")", " ", "C", "h", "r", "o", "m", "e", "/", "8", "9", ".",
          "0", ".", "4", "3", "8", "9", ".", "8", "2", " ", "S", "a", "f", "a", "r", "i",
          "/", "5", "3", "7", ".", "3", "6">>)
    @@
    ("Mozilla/5.0 (Android; Mobile; rv:58.0) Gecko/58.0 Firefox/58.0" :>
        <<"M", "o", "z", "i", "l", "l", "a", "/", "5", ".", "0", " ", "(", "A", "n", "d",
          "r", "o", "i", "d", ";", " ", "M", "o", "b", "i", "l", "e", ";", " ", "r", "v",
          ":", "5", "8", ".", "0", ")", " ", "G", "e", "c", "k", "o", "/", "5", "8", ".",
          "0", " ", "F", "i", "r", "e", "f", "o", "x", "/", "5", "8", ".", "0">>)

\* ord(c) for the printable ASCII characters (the grave accent left out)
Ord ==
    " " :> 32 @@ "!" :> 33 @@ "\"" :> 34 @@ "#" :> 35 @@ "$" :> 36 @@ "%" :> 37 @@
    "&" :> 38 @@ "'" :> 39 @@ "(" :> 40 @@ ")" :> 41 @@ "*" :> 42 @@ "+" :> 43 @@
    "," :> 44 @@ "-" :> 45 @@ "." :> 46 @@ "/" :> 47 @@ "0" :> 48 @@ "1" :> 49 @@
    "2" :> 50 @@ "3" :> 51 @@ "4" :> 52 @@ "5" :> 53 @@ "6" :> 54 @@ "7" :> 55 @@
    "8" :> 56 @@ "9" :> 57 @@ ":" :> 58 @@ ";" :> 59 @@ "<" :> 60 @@ "=" :> 61 @@
    ">" :> 62 @@ "?" :> 63 @@ "@" :> 64 @@ "A" :> 65 @@ "B" :> 66 @@ "C" :> 67 @@
    "D" :> 68 @@ "E" :> 69 @@ "F" :> 70 @@ "G" :> 71 @@ "H" :> 72 @@ "I" :> 73 @@
    "J" :> 74 @@ "K" :> 75 @@ "L" :> 76 @@ "M" :> 77 @@ "N" :> 78 @@ "O" :> 79 @@
    "P" :> 80 @@ "Q" :> 81 @@ "R" :> 82 @@ "S" :> 83 @@ "T" :> 84 @@ "U" :> 85 @@
    "V" :> 86 @@ "W" :> 87 @@ "X" :> 88 @@ "Y" :> 89 @@ "Z" :> 90 @@ "[" :> 91 @@
    "\\" :> 92 @@ "]" :> 93 @@ "^" :> 94 @@ "_" :> 95 @@ "a" :> 97 @@
    "b" :> 98 @@ "c" :> 99 @@ "d" :> 100 @@ "e" :> 101 @@ "f" :> 102 @@ "g" :> 103 @@
    "h" :> 104 @@ "i" :> 105 @@ "j" :> 106 @@ "k" :> 107 @@ "l" :> 108 @@ "m" :> 109 @@
    "n" :> 110 @@ "o" :> 111 @@ "p" :> 112 @@ "q" :> 113 @@ "r" :> 114 @@ "s" :> 115 @@
    "t" :> 116 @@ "u" :> 117 @@ "v" :> 118 @@ "w" :> 119 @@ "x" :> 120 @@ "y" :> 121 @@
    "z" :> 122 @@ "{" :> 123 @@ "|" :> 124 @@ "}" :> 125 @@ "~" :> 126

\* chr(n): the character with code point n; a token U+n outside printable ASCII
chr(n) ==
    IF \E c \in DOMAIN Ord : Ord[c] = n
    THEN CHOOSE c \in DOMAIN Ord : Ord[c] = n
    ELSE "U+" \o ToString(n)

\* s.encode("utf-8") for a str of printable ASCII characters
encode_utf8(s) == [i \in 1..Len(s) |-> Ord[s[i]]]

B64Alphabet ==
    <<"A", "B", "C", "D", "E", "F", "G", "H", "I", "J", "K", "L", "M", "N", "O", "P", "Q",
      "R", "S", "T", "U", "V", "W", "X", "Y", "Z", "a", "b", "c", "d", "e", "f", "g", "h",
      "i", "j", "k", "l", "m", "n", "o", "p", "q", "r", "s", "t", "u", "v", "w", "x", "y",
      "z", "0", "1", "2", "3", "4", "5", "6", "7", "8", "9", "+", "/">>

\* base64.b64encode(bytes).decode("utf-8"): every three bytes give four
\* characters of six bits each, a last group of one or two bytes is padded
b64encode(bytes) ==
    LET n == Len(bytes)
        byte(i) == IF i <= n THEN bytes[i] ELSE 0
        sextet(k, j) ==
            LET b1 == byte(3 * k - 2)
                b2 == byte(3 * k - 1)
                b3 == byte(3 * k)
            IN  CASE j = 1 -> b1 \div 4
                  [] j = 2 -> (b1 % 4) * 16 + b2 \div 16
                  [] j = 3 -> (b2 % 16) * 4 + b3 \div 64
                  [] j = 4 -> b3 % 64
        char(k, j) ==
            IF (j = 3 /\ 3 * k - 1 > n) \/ (j = 4 /\ 3 * k > n)
            THEN "="
            ELSE B64Alphabet[sextet(k, j) + 1]
    IN  [i \in 1..(4 * ((n + 2) \div 3)) |-> char((i + 3) \div 4, ((i - 1) % 4) + 1)]

(***************************************************************************)
(* extractor.py, Parser.HastorniJsFile                                     *)
(***************************************************************************)
\* the items a for loop or a generator draws from a value; None if the
\* value is not iterable
py_iter(value) ==
    CASE value.t = "list" -> Some(value.v)
      [] value.t = "str" -> Some([i \in 1..Len(value.v) |-> PyStr(<<value.v[i]>>)])
      [] value.t = "dict" -> Some([i \in 1..Len(value.v) |-> PyStr(value.v[i][1])])
      [] OTHER -> None

\* chr(letter): the code point of an int (a bool is an int)
py_chr(letter) ==
    LET n == IF letter.t = "int" THEN letter.v
             ELSE IF letter.v THEN 1 ELSE 0
    IN  IF letter.t \notin {"int", "bool"}
        THEN Raise("TypeError", "an integer is required")
        ELSE IF n < 0 \/ n > 1114111
        THEN Raise("ValueError", "chr() arg not in range(0x110000)")
        ELSE Return(chr(n))

_convert_char_codes_to_str(char_codes) ==
    LET items == py_iter(char_codes)
        not_a_list == Raise("ValueError", "Input is not a list of character codes.")
    IN  IF items = None THEN not_a_list
        ELSE
        LET chars == [i \in 1..Len(items[1]) |-> py_chr(items[1][i])]
            bad == {i \in 1..Len(chars) : Raised(chars[i])}
        IN  IF bad = {} THEN Return([i \in 1..Len(chars) |-> chars[i].val])
            ELSE IF chars[Min(bad)].exc = "TypeError" THEN not_a_list
            ELSE chars[Min(bad)]

get_ursidae_name(response_text) ==
    LET char_codes_match == regex_between(response_text, "ursidae = ", ";")
    IN  IF char_codes_match = None
        THEN Raise("ValueError", "Char codes for Ursidae name not found in response text.")
        ELSE
        LET char_codes == json_loads(char_codes_match[1])
        IN  IF Raised(char_codes)
            THEN Raise("ValueError", "Char codes string is not a valid JSON object.")
            ELSE _convert_char_codes_to_str(char_codes.val)

_get_letters_map(response_text) ==
    LET map_match == regex_between(response_text, "kretzoi = ", ";")
    IN  IF map_match = None
        THEN Raise("ValueError", "Map not found in the response.")
        ELSE
        LET map_ == json_loads(map_match[1])
        IN  IF Raised(map_)
            THEN Raise("ValueError", "Error decoding map")
            ELSE Return(map_.val)

\* letters_map[letter] for a one-character str
py_getitem(letters_map, letter) ==
    IF letters_map.t = "dict"
    THEN IF \E i \in 1..Len(letters_map.v) : letters_map.v[i][1] = <<letter>>
         THEN Return((CHOOSE item \in {letters_map.v[i] : i \in 1..Len(letters_map.v)} :
                        item[1] = <<letter>>)[2])
         ELSE Raise("KeyError", letter)
    ELSE IF letters_map.t \in {"list", "str"}
    THEN Raise("TypeError", "indices must be integers")
    ELSE Raise("TypeError", "object is not subscriptable")

\* get_rats_hash that leaves out the letters the map does not hold
get_rats_hash_known_letters(response) ==
    LET letters_map == _get_letters_map(response.text)
        group_name_letters == Chars[response.meta["group"].name]
    IN  IF Raised(letters_map) THEN letters_map
        ELSE LET known == SelectSeq(group_name_letters,
                                    LAMBDA l : ~Raised(py_getitem(letters_map.val, l)))
             IN  Return(b64encode(encode_utf8(join(<<"|">>,
                    [i \in 1..Len(known) |->
                        py_str(py_getitem(letters_map.val, known[i]).val)]))))

get_rats_hash(response) ==
    LET group_name == response.meta["group"].name
        group_name_letters == Chars[group_name]
        encoded(group_name_numbers) ==
            LET rats_content == join(<<"|">>, group_name_numbers)
                rats_content_encoded == encode_utf8(rats_content)
                rats_b64 == b64encode(rats_content_encoded)
            IN  Return(rats_b64)
        \* the list comprehension, its lookups done: the first that raised ends it
        numbers(looked_up) ==
            LET bad == {i \in 1..Len(looked_up) : Raised(looked_up[i])}
            IN  IF bad # {} THEN looked_up[Min(bad)]
                ELSE encoded([i \in 1..Len(looked_up) |-> py_str(looked_up[i].val)])
        hashed(letters_map) ==
            IF Raised(letters_map) THEN letters_map
            ELSE numbers([i \in 1..Len(group_name_letters) |->
                            py_getitem(letters_map.val, group_name_letters[i])])
    IN  hashed(_get_letters_map(response.text))

\* response.urljoin(path) for a path that starts with "/"
urljoin(path) == <<"https://panda.belvo.io">> \o path

get_daxiongmao_file_url(response, ursidae_name) ==
    LET os == response.meta["os"]
        ua == response.request.headers["user-agent"]
        ua_ursidae_os == encode_utf8(Chars[ua] \o ursidae_name \o Chars[os])
        ua_ursidae_os_b64 == b64encode(ua_ursidae_os)
        carnivore_value == response.meta["carnivore_value"]
        daxiongmao_file_endpoint ==
            <<"/daxiongmao.js", "?">> \o carnivore_value \o <<"=">>
                \o ua_ursidae_os_b64 \o <<"&", "key", "=", "aadfa">>
    IN  urljoin(daxiongmao_file_endpoint)

(***************************************************************************)
(* extractor.py, Parser.DaxiongmaoJsFile                                   *)
(***************************************************************************)
\* get_rogue_racoons_hash with the match object kept between calls: a call
\* that follows another call reads the text that call was given
get_rogue_racoons_hash_kept_match(response_text) ==
    LET text == IF calls # <<>> /\ "text" \in DOMAIN calls[Len(calls)].given
                THEN calls[Len(calls)].given.text
                ELSE response_text
        hash_match == regex_between(text, "oons\" value=\"", "\"")
    IN  IF hash_match = None
        THEN Raise("ValueError", "Rogue raccoons hash not found in response.")
        ELSE Return(hash_match[1])

get_rogue_racoons_hash(response_text) ==
    LET hash_match == regex_between(response_text, "oons\" value=\"", "\"")
    IN  IF hash_match = None
        THEN Raise("ValueError", "Rogue raccoons hash not found in response.")
        ELSE Return(hash_match[1])

(***************************************************************************)
(* middlewares.py, FakePlatformMiddleware                                  *)
(***************************************************************************)
all_platforms ==
    <<
       [os |-> "Win32",
        ua |-> "Mozilla/5.0 (Windows NT 5.1 rv: 52.0) Gecko/20100101 Firefox/52.0"],
       [os |-> "Win64",
        ua |-> "Mozilla/5.0 (Windows NT 10.0; Win64; x64) AppleWebKit/537.36 (KHTML, like Gecko) Chrome/89.0.4389.82 Safari/537.36"],
       [os |-> "MacIntel",
        ua |-> "Mozilla/5.0 (Macintosh; Intel Mac OS X 10_15_7) AppleWebKit/605.1.15 (KHTML, like Gecko) Version/14.0 Safari/605.1.15"],
       [os |-> "iPhone",
        ua |-> "Mozilla/5.0 (iPhone; CPU iPhone OS 14_2 like Mac OS X) AppleWebKit/605.1.15 (KHTML, like Gecko) Version/14.0 Mobile/15E148 Safari/604.1"],
       [os |-> "iPad",
        ua |-> "Mozilla/5.0 (iPad; CPU OS 14_2 like Mac OS X) AppleWebKit/605.1.15 (KHTML, like Gecko) Version/14.0 Mobile/15E148 Safari/604.1"],
       [os |-> "Linux i686",
        ua |-> "Mozilla/5.0 (X11; Linux i686; rv:52.0) Gecko/20100101 Firefox/52.0"],
       [os |-> "Linux x86_64",
        ua |-> "Mozilla/5.0 (X11; Linux x86_64) AppleWebKit/537.36 (KHTML, like Gecko) Chrome/89.0.4389.82 Safari/537.36"],
       [os |-> "FreeBSD i386",
        ua |-> "Mozilla/5.0 (FreeBSD; U; FreeBSD i386; en-US) AppleWebKit/537.36 (KHTML, like Gecko) Chrome/79.0.3945.79 Safari/537.36"],
       [os |-> "FreeBSD amd64",
        ua |-> "Mozilla/5.0 (FreeBSD; U; FreeBSD amd64; en-US) AppleWebKit/537.36 (KHTML, like Gecko) Chrome/79.0.3945.79 Safari/537.36"],
       [os |-> "OpenBSD i386",
        ua |-> "Mozilla/5.0 (X11; OpenBSD i386; rv:52.0) Gecko/20100101 Firefox/52.0"],
       [os |-> "OpenBSD amd64",
        ua |-> "Mozilla/5.0 (X11; OpenBSD amd64; rv:52.0) Gecko/20100101 Firefox/52.0"],
       [os |-> "SunOS i86pc",
        ua |-> "Mozilla/5.0 (X11; SunOS i86pc) AppleWebKit/537.36 (KHTML, like Gecko) Chrome/89.0.4389.82 Safari/537.36"],
       [os |-> "SunOS sun4u",
        ua |-> "Mozilla/5.0 (X11; SunOS sun4u) AppleWebKit/537.36 (KHTML, like Gecko) Chrome/89.0.4389.82 Safari/537.36"],
       [os |-> "Android",
        ua |-> "Mozilla/5.0 (Android; Mobile; rv:58.0) Gecko/58.0 Firefox/58.0"]
    >>

\* the platforms _get_random_platform can return
Platforms == {all_platforms[i] : i \in 1..NumPlatforms}

\* process_request with the platform that random.choice drew
process_request(request, fake_platform) ==
    IF "fake_platform" \in DOMAIN request.meta
    THEN LET fake_os == fake_platform.os
             fake_ua == fake_platform.ua
         IN  [request EXCEPT !.headers = ("user-agent" :> fake_ua) @@ @,
                             !.meta = ("os" :> fake_os) @@ @]
    ELSE request

(***************************************************************************)
(* spider.py, VoteForPandas                                                *)
(***************************************************************************)
form_page_url ==
    <<"https://panda.belvo.io", "/", "?", "trial_key", "=", "A3F3D333452DF83D32A387F3FC3-GUBA">>

voting_url == <<"https://panda.belvo.io", "/ursidaecarinove_eating_bambu_must_die">>

\* self.groups, as __init__ leaves it for a final_decision
groups_for(decision) ==
    << [name |-> "bearfoot_bearitone", vote |-> "0"],
       [name |-> "bearium_bearon", vote |-> "0"],
       [name |-> "stupandas_bamboozle", vote |-> "1"],
       [name |-> "bearing_embearass_goosebeary", vote |-> "1"],
       [name |-> "beary_pawsitively_forbearance", vote |-> decision] >>

groups == groups_for(final_decision)

\* A transaction is known by the position of its group in self.groups.
Group == DOMAIN groups

\* send_group_to_vote with the errback of the vote on the form page request
send_group_to_vote_with_errback(group) ==
    [url |-> form_page_url, method |-> "GET", cookies |-> EmptyDict, headers |-> EmptyDict,
     meta |-> [fake_platform |-> TRUE, group |-> group], formdata |-> EmptyDict,
     callback |-> "parse", errback |-> "handle_vote_failure", dont_filter |-> TRUE]

\* scrapy.Request / scrapy.FormRequest with the arguments the spider gives;
\* the callback of a request that names none is parse
Request(url, method, cookies, headers, meta, formdata, callback, errback, dont_filter) ==
    [url |-> url, method |-> method, cookies |-> cookies, headers |-> headers,
     meta |-> meta, formdata |-> formdata, callback |-> callback,
     errback |-> errback, dont_filter |-> dont_filter]

NoRequest == [callback |-> "none"]

send_group_to_vote(group) ==
    LET meta == [fake_platform |-> TRUE, group |-> group]
    IN  Request(form_page_url, "GET", EmptyDict, EmptyDict, meta, EmptyDict,
                "parse", "none", TRUE)

\* The engine passes a request through process_request before the download;
\* nothing reads the request in between, so it is done as the request is
\* yielded.  The requests a yielded request can become:
scheduled(request) == {process_request(request, platform) : platform \in Platforms}

\* the response object a callback is given: what the server answered, the
\* request it answers and that request's meta
Response(request, answer) ==
    [request |-> request, meta |-> request.meta, headers |-> answer.headers,
     html |-> answer.html, text |-> answer.text]

NoException == [exc |-> ""]
NoResponse == [text |-> <<>>]

\* the record of a traced crawl: the handler that ran last, for which group,
\* the request it answers, the response it was given and what it raised
Ran(g, handler, request, response, raised) ==
    [group |-> g, handler |-> handler, request |-> request, response |-> response,
     raised |-> raised]

\* restarts so far: calls of send_group_to_vote beyond the start requests
RECURSIVE SumTo(_, _)
SumTo(f, n) == IF n = 0 THEN 0 ELSE f[n] + SumTo(f, n - 1)
Restarts == SumTo(attempt, Len(groups)) - started

(***************************************************************************)
(* The server.  Every value the server issues is fresh: it names the       *)
(* transaction and the attempt it was issued to.                           *)
(***************************************************************************)
issued(kind, g, a) == kind \o "-" \o ToString(g) \o "." \o ToString(a)

SetCookie(value) == ("Set-Cookie" :> <<value>>)

\* the Set-Cookie header of a response that issues the session value sid
GoodCookieHeaders(sid) ==
    SetCookie(<<"session", "=", sid, ";", " ", "HttpOnly", ";", " ", "Path", "=", "/">>)

\* the same for a value that ends in "=="
PaddedCookieHeaders(sid) ==
    SetCookie(<<"session", "=", sid, "=", "=", ";", " ", "HttpOnly", ";", " ", "Path", "=", "/">>)

\* Set-Cookie headers that set no session cookie: attributes only, a cookie
\* whose name starts with "session", a cookie whose value is "session", an
\* empty value
UnrelatedCookieHeaders ==
    { SetCookie(value) :
        value \in { <<"HttpOnly", ";", " ", "Path", "=", "/">>,
                    <<"sessionid", "=", "abc", ";", " ", "Path", "=", "/">>,
                    <<"id", "=", "session">>,
                    <<>> } }

FormInput(attributes) ==
    [within |-> "carnivoreatingbambu", tag |-> "input", attrib |-> attributes]

\* the form page of attempt a of transaction g
GoodDocument(g, a) ==
    <<FormInput([type |-> <<"hidden">>, value |-> <<issued("carnivore", g, a)>>])>>

\* the form page: as expected, with a padded session value, with an input
\* that has no value, without the input, with the input under another id,
\* without a Set-Cookie header, with a Set-Cookie header that sets no
\* session cookie
FormPageAnswers(g, a) ==
    { [headers |-> GoodCookieHeaders(issued("sid-form", g, a)),
       html |-> GoodDocument(g, a), text |-> <<>>],
      [headers |-> PaddedCookieHeaders(issued("sid-form", g, a)),
       html |-> GoodDocument(g, a), text |-> <<>>],
      [headers |-> GoodCookieHeaders(issued("sid-form", g, a)),
       html |-> <<FormInput([type |-> <<"hidden">>])>>, text |-> <<>>],
      [headers |-> GoodCookieHeaders(issued("sid-form", g, a)),
       html |-> <<>>, text |-> <<>>],
      [headers |-> GoodCookieHeaders(issued("sid-form", g, a)),
       html |-> <<[within |-> "login", tag |-> "input",
                   attrib |-> [value |-> <<issued("carnivore", g, a)>>]]>>,
       text |-> <<>>],
      [headers |-> EmptyDict, html |-> GoodDocument(g, a), text |-> <<>>] }
    \cup { [headers |-> headers, html |-> GoodDocument(g, a), text |-> <<>>] :
                headers \in UnrelatedCookieHeaders }

\* the letters the server's map covers
Letters ==
    <<"_", "a", "b", "c", "d", "e", "f", "g", "h", "i", "j", "k", "l", "m", "n", "o", "p",
      "q", "r", "s", "t", "u", "v", "w", "x", "y", "z">>

\* the number the map of attempt a of transaction g gives a letter
LetterCode(letter, g, a) == Ord[letter] + 100 * a + g

MapText(letters, g, a) ==
    <<"{">> \o join(<<",">>,
                    [i \in 1..Len(letters) |->
                        <<"\"", letters[i], "\"", ":">>
                            \o str_int(LetterCode(letters[i], g, a))])
            \o <<"}">>

\* the identity name of attempt a of transaction g, as character codes
IdentityCodes(g, a) ==
    <<"[">> \o join(<<",", " ">>,
                    <<str_int(124), str_int(124), str_int(98), str_int(101), str_int(97),
                      str_int(114), str_int(48 + g), str_int(48 + a), str_int(124),
                      str_int(124)>>)
            \o <<"]">>

Statement(prefix, literal) ==
    IF literal = None THEN <<>> ELSE <<"var ", prefix>> \o literal[1] \o <<";", "\n">>

Script(codes, map) == Statement("ursidae = ", codes) \o Statement("kretzoi = ", map)

\* hastorni.js: as expected, with a map of one letter, with a map that is
\* no JSON, without the ursidae statement
HastorniAnswers(g, a) ==
    { [headers |-> EmptyDict, html |-> <<>>, text |-> text] :
        text \in { Script(Some(IdentityCodes(g, a)), Some(MapText(Letters, g, a))),
                   Script(Some(IdentityCodes(g, a)), Some(MapText(<<"b">>, g, a))),
                   Script(Some(IdentityCodes(g, a)), Some(<<"{", "b", ":", "1", "}">>)),
                   Script(None, Some(MapText(Letters, g, a))) } }

PayloadText(g, a) ==
    <<"<input type=\"hidden\" name=\"rogue_rac", "oons\" value=\"",
      issued("racoons", g, a), "\"", ">">>

\* daxiongmao.js: as expected, without the value, without a Set-Cookie
\* header, with a Set-Cookie header that sets no session cookie
DaxiongmaoAnswers(g, a) ==
    { [headers |-> GoodCookieHeaders(issued("sid-payload", g, a)),
       html |-> <<>>, text |-> PayloadText(g, a)],
      [headers |-> GoodCookieHeaders(issued("sid-payload", g, a)),
       html |-> <<>>, text |-> <<"<input type=\"hidden\" name=\"rogue_racoons\">">>],
      [headers |-> EmptyDict, html |-> <<>>, text |-> PayloadText(g, a)] }
    \cup { [headers |-> headers, html |-> <<>>, text |-> PayloadText(g, a)] :
                headers \in UnrelatedCookieHeaders }

\* the pages the vote can be answered with
VotePages ==
    { <<"<h1>", "Thank you bea", "r", "</h1>">>,
      <<"{", "\"", "pandas_future", "\"", ":", "\"", "die", "\"", "}", "\n">>,
      <<"{", "\"", "pandas_future", "\"", ":", "1", ",", "\"", "msg", "\"", ":",
        "\"", "Thank you bea", "r", "\"", "}">>,
      <<"<h1>", "Thank you bea", "r", "</h1>", "<p>", "pandas_future", "</p>">>,
      <<"pandas_future", ":", "live">>,
      <<"<h1>", "Internal Server Error", "</h1>">>,
      <<"{", "}">> }

VoteAnswers == { [headers |-> EmptyDict, html |-> <<>>, text |-> t] : t \in VotePages }

(***************************************************************************)
(* What the extraction routines give on the answers the server can send.   *)
(* The routines are functions of the answer, so each is applied once to    *)
(* each answer and the callbacks look the outcome up.                      *)
(***************************************************************************)
\* a function as the table of its values
Table(f) == f @@ <<>>

\* the transactions and the attempts the bounds allow
Transactions == 1..(IF MaxStarted > MaxTraced THEN MaxStarted ELSE MaxTraced)
Attempts == 1..(MaxRestarts + 1)

\* what the server can answer each request of attempt a of transaction g with
form_pages == Table([g \in Transactions, a \in Attempts |-> FormPageAnswers(g, a)])
hastorni_js_files == Table([g \in Transactions, a \in Attempts |-> HastorniAnswers(g, a)])
daxiongmao_js_files == Table([g \in Transactions, a \in Attempts |-> DaxiongmaoAnswers(g, a)])

FormPages == UNION {form_pages[g, a] : g \in Transactions, a \in Attempts}
HastorniFiles == UNION {hastorni_js_files[g, a] : g \in Transactions, a \in Attempts}
DaxiongmaoFiles == UNION {daxiongmao_js_files[g, a] : g \in Transactions, a \in Attempts}

get_session_cookies_of ==
    Table([headers \in {answer.headers : answer \in FormPages \cup DaxiongmaoFiles} |->
            get_session_cookies(headers)])

get_carnivore_value_of ==
    Table([html \in {answer.html : answer \in FormPages} |->
            get_carnivore_value([html |-> html])])

get_ursidae_name_of ==
    Table([text \in {answer.text : answer \in HastorniFiles} |-> get_ursidae_name(text)])

get_rats_hash_of ==
    Table([call \in UNION {{groups_for("0")[g].name}
                                \X {answer.text : answer \in hastorni_js_files[g, a]} :
                           g \in Transactions, a \in Attempts} |->
            get_rats_hash([text |-> call[2], meta |-> [group |-> [name |-> call[1]]]])])

\* the values get_carnivore_value and get_ursidae_name return
CarnivoreValues ==
    {get_carnivore_value_of[html].val :
        html \in {h \in DOMAIN get_carnivore_value_of : ~Raised(get_carnivore_value_of[h])}}
UrsidaeNames ==
    {get_ursidae_name_of[text].val :
        text \in {t \in DOMAIN get_ursidae_name_of : ~Raised(get_ursidae_name_of[t])}}

get_daxiongmao_file_url_of ==
    Table([platform \in Platforms, carnivore_value \in CarnivoreValues,
           ursidae_name \in UrsidaeNames |->
            get_daxiongmao_file_url(
                [meta |-> [os |-> platform.os, carnivore_value |-> carnivore_value],
                 request |-> [headers |-> ("user-agent" :> platform.ua)]],
                ursidae_name)])

get_rogue_racoons_hash_of ==
    Table([text \in {answer.text : answer \in DaxiongmaoFiles} |->
            get_rogue_racoons_hash(text)])

(***************************************************************************)
(* The crawl.                                                              *)
(***************************************************************************)
NotCalled == [exc |-> "not called"]
NoCall == [routine |-> "none"]

\* the spider as __init__ leaves it, nothing pulled from start_requests yet
InitCrawl ==
    /\ final_decision \in {"0", "1"}
    /\ started = 0
    /\ status = [g \in 1..5 |-> "Unsent"]
    /\ req = [g \in 1..5 |-> NoRequest]
    /\ attempt = [g \in 1..5 |-> 0]
    /\ results = EmptyDict
    /\ now = 0
    /\ last = Ran(0, "none", NoRequest, NoResponse, NoException)
    /\ outstanding = [g \in 1..5 |-> 0]
    /\ votes = [g \in 1..5 |-> 0]
    /\ cookie_header = None
    /\ cookie_result = NotCalled
    /\ called = NoCall
    /\ calls = <<>>

Init == InitCrawl /\ traced = FALSE

InitTraced == InitCrawl /\ traced = TRUE

\* the engine takes the next request from the start_requests generator
start_requests ==
    /\ started < Len(groups)
    /\ started < (IF traced THEN MaxTraced ELSE MaxStarted)
    /\ LET g == started + 1
           group == groups[g]
       IN  \E request \in scheduled(send_group_to_vote(group)) :
               /\ req' = [req EXCEPT ![g] = request]
               /\ status' = [status EXCEPT ![g] = "Pending"]
               /\ attempt' = [attempt EXCEPT ![g] = @ + 1]
               /\ outstanding' = [outstanding EXCEPT ![g] = @ + 1]
    /\ started' = started + 1
    /\ UNCHANGED <<final_decision, results, now, traced, last, votes, call_vars>>

\* a traced crawl records the handler that ran
Trace(g, handler, request, response, raised) ==
    last' = IF traced THEN Ran(g, handler, request, response, raised) ELSE last

\* the engine hands the response or the failure of the request of g to its
\* handler, and takes the requests the handler yields
Handled(g, yielded) == outstanding' = [outstanding EXCEPT ![g] = @ - 1 + yielded]

\* Fails with an except clause around the callback that starts the
\* transaction again
FailsAndRestarts(g, handler, response, raised) ==
    /\ status' = status
    /\ \E r \in scheduled(send_group_to_vote(groups[g])) : req' = [req EXCEPT ![g] = r]
    /\ Handled(g, 1)
    /\ Trace(g, handler, req[g], response, raised)

\* Fails with the exception closing the spider: every request is dropped
FailsAndCloses(g, handler, response, raised) ==
    /\ status' = [status EXCEPT ![g] = "Failed"]
    /\ req' = [h \in DOMAIN req |-> NoRequest]
    /\ outstanding' = [h \in DOMAIN outstanding |-> 0]
    /\ Trace(g, handler, req[g], response, raised)

\* the callback raised: nothing is yielded and the transaction is over
Fails(g, handler, response, raised) ==
    /\ status' = [status EXCEPT ![g] = "Failed"]
    /\ req' = [req EXCEPT ![g] = NoRequest]
    /\ Handled(g, 0)
    /\ Trace(g, handler, req[g], response, raised)

\* the callback yielded one request
Yields(g, handler, response, request) ==
    /\ \E r \in scheduled(request) : req' = [req EXCEPT ![g] = r]
    /\ Handled(g, 1)
    /\ status' = status
    /\ Trace(g, handler, req[g], response, NoException)

\* hastorni_request with the session kept on the spider: the cookie of the
\* first transaction while it is under way
hastorni_request_spider_session(response, key, value, carnivore_value) ==
    LET hastorni_js_file_url == urljoin(<<"/hastorni.js">>)
        meta == [carnivore_value |-> carnivore_value,
                 group |-> response.meta["group"],
                 os |-> response.meta["os"]]
        cookies == IF req[1].callback \in {"parse_hastorni_js_file", "parse_daxiongmao_js_file"}
                   THEN req[1].cookies
                   ELSE (key :> value)
    IN  Request(hastorni_js_file_url, "GET", cookies, response.request.headers,
                meta, EmptyDict, "parse_hastorni_js_file", "none", TRUE)

\* hastorni_request with the fake_platform mark of the form page request
\* kept in meta
hastorni_request_marked(response, key, value, carnivore_value) ==
    LET hastorni_js_file_url == urljoin(<<"/hastorni.js">>)
        meta == [carnivore_value |-> carnivore_value,
                 group |-> response.meta["group"],
                 os |-> response.meta["os"],
                 fake_platform |-> TRUE]
    IN  Request(hastorni_js_file_url, "GET", (key :> value), response.request.headers,
                meta, EmptyDict, "parse_hastorni_js_file", "none", TRUE)

\* the request parse yields for hastorni.js
hastorni_request(response, key, value, carnivore_value) ==
    LET hastorni_js_file_url == urljoin(<<"/hastorni.js">>)
        meta == [carnivore_value |-> carnivore_value,
                 group |-> response.meta["group"],
                 os |-> response.meta["os"]]
    IN  Request(hastorni_js_file_url, "GET", (key :> value), response.request.headers,
                meta, EmptyDict, "parse_hastorni_js_file", "none", TRUE)

parse(g) ==
    /\ status[g] = "Pending"
    /\ req[g].callback = "parse"
    /\ \E answer \in form_pages[g, attempt[g]] :
        LET response == Response(req[g], answer)
            session == get_session_cookies_of[response.headers]
            carnivore_value == get_carnivore_value_of[response.html]
        IN  IF Raised(session) THEN Fails(g, "parse", response, session)
            ELSE IF Raised(carnivore_value)
            THEN Fails(g, "parse", response, carnivore_value)
            ELSE
            Yields(g, "parse", response,
                   hastorni_request(response, session.val[1], session.val[2],
                                    carnivore_value.val))
    /\ UNCHANGED <<final_decision, started, attempt, results, now, traced, votes, call_vars>>

\* daxiongmao_request with the callback of the vote
daxiongmao_request_to_voting_result(response, daxiongmao_file_url, rats_hash) ==
    LET meta == [group |-> response.meta["group"], rats_hash |-> rats_hash]
    IN  Request(daxiongmao_file_url, "GET", response.request.cookies,
                response.request.headers, meta, EmptyDict,
                "parse_voting_result", "none", FALSE)

\* the request parse_hastorni_js_file yields for daxiongmao.js
daxiongmao_request(response, daxiongmao_file_url, rats_hash) ==
    LET meta == [group |-> response.meta["group"], rats_hash |-> rats_hash]
    IN  Request(daxiongmao_file_url, "GET", response.request.cookies,
                response.request.headers, meta, EmptyDict,
                "parse_daxiongmao_js_file", "none", FALSE)

parse_hastorni_js_file(g) ==
    /\ status[g] = "Pending"
    /\ req[g].callback = "parse_hastorni_js_file"
    /\ \E answer \in hastorni_js_files[g, attempt[g]] :
        LET response == Response(req[g], answer)
            ursidae_name == get_ursidae_name_of[response.text]
        IN  IF Raised(ursidae_name)
            THEN Fails(g, "parse_hastorni_js_file", response, ursidae_name)
            ELSE
            LET daxiongmao_file_url ==
                    get_daxiongmao_file_url_of[
                        [os |-> response.meta["os"],
                         ua |-> response.request.headers["user-agent"]],
                        response.meta["carnivore_value"], ursidae_name.val]
                rats_hash == get_rats_hash_of[response.meta["group"].name, response.text]
            IN  IF Raised(rats_hash)
                THEN Fails(g, "parse_hastorni_js_file", response, rats_hash)
                ELSE
                Yields(g, "parse_hastorni_js_file", response,
                       daxiongmao_request(response, daxiongmao_file_url, rats_hash.val))
    /\ UNCHANGED <<final_decision, started, attempt, results, now, traced, votes, call_vars>>

\* vote_request with the name and the vote of the group in each other's field
vote_request_fields_swapped(response, key, value, rogue_racoons) ==
    LET group_name == response.meta["group"].name
        group_vote == response.meta["group"].vote
        rats_hash == response.meta["rats_hash"]
        form_data == [rogue_racoons |-> rogue_racoons,
                      username |-> group_vote,
                      survive |-> group_name,
                      rats |-> rats_hash]
        meta == [group |-> response.meta["group"]]
    IN  Request(voting_url, "POST", (key :> value), response.request.headers,
                meta, form_data, "parse_voting_result", "handle_vote_failure", FALSE)

\* vote_request with the cookies of the request the response answers
vote_request_request_cookies(response, key, value, rogue_racoons) ==
    LET group_name == response.meta["group"].name
        group_vote == response.meta["group"].vote
        rats_hash == response.meta["rats_hash"]
        form_data == [rogue_racoons |-> rogue_racoons,
                      username |-> group_name,
                      survive |-> group_vote,
                      rats |-> rats_hash]
        meta == [group |-> response.meta["group"]]
    IN  Request(voting_url, "POST", response.request.cookies, response.request.headers,
                meta, form_data, "parse_voting_result", "handle_vote_failure", FALSE)

\* vote_request with the rats hash encoded once more
vote_request_rehashed(response, key, value, rogue_racoons) ==
    LET group_name == response.meta["group"].name
        group_vote == response.meta["group"].vote
        rats_hash == b64encode(encode_utf8(response.meta["rats_hash"]))
        form_data == [rogue_racoons |-> rogue_racoons,
                      username |-> group_name,
                      survive |-> group_vote,
                      rats |-> rats_hash]
        meta == [group |-> response.meta["group"]]
    IN  Request(voting_url, "POST", (key :> value), response.request.headers,
                meta, form_data, "parse_voting_result", "handle_vote_failure", FALSE)

\* the FormRequest parse_daxiongmao_js_file yields for the vote
vote_request(response, key, value, rogue_racoons) ==
    LET group_name == response.meta["group"].name
        group_vote == response.meta["group"].vote
        rats_hash == response.meta["rats_hash"]
        form_data == [rogue_racoons |-> rogue_racoons,
                      username |-> group_name,
                      survive |-> group_vote,
                      rats |-> rats_hash]
        meta == [group |-> response.meta["group"]]
    IN  Request(voting_url, "POST", (key :> value), response.request.headers,
                meta, form_data, "parse_voting_result", "handle_vote_failure", FALSE)

parse_daxiongmao_js_file(g) ==
    /\ status[g] = "Pending"
    /\ req[g].callback = "parse_daxiongmao_js_file"
    /\ \E answer \in daxiongmao_js_files[g, attempt[g]] :
        LET response == Response(req[g], answer)
            rogue_racoons == get_rogue_racoons_hash_of[response.text]
            session == get_session_cookies_of[response.headers]
        IN  IF Raised(rogue_racoons)
            THEN Fails(g, "parse_daxiongmao_js_file", response, rogue_racoons)
            ELSE IF Raised(session)
            THEN Fails(g, "parse_daxiongmao_js_file", response, session)
            ELSE
            Yields(g, "parse_daxiongmao_js_file", response,
                   vote_request(response, session.val[1], session.val[2],
                                rogue_racoons.val))
    /\ UNCHANGED <<final_decision, started, attempt, results, now, traced, votes, call_vars>>

\* "marker" in response.text, the marker a single token
contains(text, marker) == \E i \in 1..Len(text) : text[i] = marker

\* datetime.now().strftime("%Y-%m-%d_%H-%M-%S"): the clock to the second
strftime(t) == ToString(t)

\* write_output_to_file at clock reading t, on the directory as it is
write_output_to_file(directory, t, election_result) ==
    LET timestamp == strftime(t)
        file_name == "election-result-" \o timestamp \o ".json"
    IN  (file_name :> election_result) @@ directory

\* the try block of parse_voting_result, json.loads done
election_result_read(election_result) ==
    IF Raised(election_result)
    THEN Raise("ValueError", <<"Could not read election result: ", election_result>>)
    ELSE [exc |-> "", written |-> Some(json_dumps(election_result.val))]

\* voting_result with the thank-you message looked for first
voting_result_thanks_first(text) ==
    LET has_vote_suceeded_msg == contains(text, "Thank you bea")
        has_election_result_msg == contains(text, "pandas_future")
    IN  IF has_vote_suceeded_msg
        THEN [exc |-> "", written |-> None]
        ELSE IF has_election_result_msg
        THEN election_result_read(json_loads(text))
        ELSE Raise("ValueError", <<"Response page not expected: ", text>>)

\* what parse_voting_result does with the text of a response: nothing, a
\* string written to results/, or an exception raised
voting_result(text) ==
    LET has_vote_suceeded_msg == contains(text, "Thank you bea")
        has_election_result_msg == contains(text, "pandas_future")
        has_valid_response == has_vote_suceeded_msg \/ has_election_result_msg
    IN  IF ~has_valid_response
        THEN Raise("ValueError", <<"Response page not expected: ", text>>)
        ELSE IF has_election_result_msg
        THEN election_result_read(json_loads(text))
        ELSE [exc |-> "", written |-> None]

voting_result_of == Table([text \in VotePages |-> voting_result(text)])

\* The server and its record of votes are not in the repository.  It thanks
\* for a submission it has recorded, and it records every submission it
\* processes: the form carries nothing that tells a second submission of a
\* group from its first but the group name.
Recorded(g, processed) == votes' = [votes EXCEPT ![g] = @ + (IF processed THEN 1 ELSE 0)]

parse_voting_result(g) ==
    /\ status[g] = "Pending"
    /\ req[g].callback = "parse_voting_result"
    /\ \E answer \in VoteAnswers :
        LET response == Response(req[g], answer)
            result == voting_result_of[response.text]
        IN /\ IF Raised(result)
            THEN /\ Fails(g, "parse_voting_result", response, result)
                 /\ UNCHANGED <<results, now>>
            ELSE IF result.written # None
            THEN \E t \in now..(now + 1) :
                    /\ now' = t
                    /\ results' = write_output_to_file(results, t, result.written[1])
                    /\ status' = [status EXCEPT ![g] = "ElectionClosed"]
                    /\ req' = [req EXCEPT ![g] = NoRequest]
                    /\ Handled(g, 0)
                    /\ Trace(g, "parse_voting_result", req[g], response, NoException)
            ELSE /\ status' = [status EXCEPT ![g] = "Accepted"]
                 /\ req' = [req EXCEPT ![g] = NoRequest]
                 /\ Handled(g, 0)
                 /\ Trace(g, "parse_voting_result", req[g], response, NoException)
                 /\ UNCHANGED <<results, now>>
           /\ Recorded(g, contains(response.text, "Thank you bea"))
    /\ UNCHANGED <<final_decision, started, attempt, traced, call_vars>>

\* handle_vote_failure yielding failure.request again
handle_vote_failure_resends(g) ==
    /\ status[g] = "Pending"
    /\ req[g].errback = "handle_vote_failure"
    /\ LET failure == [request |-> req[g]]
       IN  /\ req' = [req EXCEPT ![g] = failure.request]
           /\ Trace(g, "handle_vote_failure", failure.request, NoResponse, NoException)
    /\ Handled(g, 1)
    /\ \E processed \in BOOLEAN : Recorded(g, processed)
    /\ UNCHANGED <<final_decision, started, status, attempt, results, now, traced,
                   call_vars>>

\* handle_vote_failure with the cookies of the failed request given to the
\* new form page request
handle_vote_failure_keeps_cookies(g) ==
    /\ status[g] = "Pending"
    /\ req[g].errback = "handle_vote_failure"
    /\ Restarts < MaxRestarts
    /\ LET failure == [request |-> req[g]]
           group == failure.request.meta["group"]
       IN  /\ \E request \in scheduled(send_group_to_vote(group)) :
                req' = [req EXCEPT ![g] = [request EXCEPT !.cookies = failure.request.cookies]]
           /\ Trace(g, "handle_vote_failure", failure.request, NoResponse, NoException)
    /\ attempt' = [attempt EXCEPT ![g] = @ + 1]
    /\ Handled(g, 1)
    /\ \E processed \in BOOLEAN : Recorded(g, processed)
    /\ UNCHANGED <<final_decision, started, status, results, now, traced, call_vars>>

\* handle_vote_failure yielding the failed request again next to the new
\* form page request
handle_vote_failure_yields_both(g) ==
    /\ status[g] = "Pending"
    /\ req[g].errback = "handle_vote_failure"
    /\ Restarts < MaxRestarts
    /\ LET failure == [request |-> req[g]]
           group == failure.request.meta["group"]
       IN  /\ \E request \in scheduled(send_group_to_vote(group)) :
                req' = [req EXCEPT ![g] = request]
           /\ Trace(g, "handle_vote_failure", failure.request, NoResponse, NoException)
    /\ attempt' = [attempt EXCEPT ![g] = @ + 1]
    /\ Handled(g, 2)
    /\ \E processed \in BOOLEAN : Recorded(g, processed)
    /\ UNCHANGED <<final_decision, started, status, results, now, traced, call_vars>>

\* The download of a request with an errback fails: the errback runs.  The
\* failure is reported with the submission never delivered, or delivered
\* and processed and the response lost or timed out.
handle_vote_failure(g) ==
    /\ status[g] = "Pending"
    /\ req[g].errback = "handle_vote_failure"
    /\ Restarts < MaxRestarts
    /\ LET failure == [request |-> req[g]]
           group == failure.request.meta["group"]
       IN  /\ \E request \in scheduled(send_group_to_vote(group)) :
                req' = [req EXCEPT ![g] = request]
           /\ Trace(g, "handle_vote_failure", failure.request, NoResponse, NoException)
    /\ attempt' = [attempt EXCEPT ![g] = @ + 1]
    /\ Handled(g, 1)
    /\ \E processed \in BOOLEAN : Recorded(g, processed)
    /\ UNCHANGED <<final_decision, started, status, results, now, traced, call_vars>>

\* the download of a request without an errback fails: the engine logs the
\* failure and no code of the spider runs
download_failed(g) ==
    /\ status[g] = "Pending"
    /\ req[g].errback = "none"
    /\ status' = [status EXCEPT ![g] = "Failed"]
    /\ req' = [req EXCEPT ![g] = NoRequest]
    /\ Handled(g, 0)
    /\ Trace(g, "none", req[g], NoResponse, NoException)
    /\ UNCHANGED <<final_decision, started, attempt, results, now, traced, votes, call_vars>>

Next ==
    \/ start_requests
    \/ \E g \in Group : parse(g)
    \/ \E g \in Group : parse_hastorni_js_file(g)
    \/ \E g \in Group : parse_daxiongmao_js_file(g)
    \/ \E g \in Group : parse_voting_result(g)
    \/ \E g \in Group : handle_vote_failure(g)
    \/ \E g \in Group : download_failed(g)

\* the crawl, up to MaxStarted transactions
Spec == Init /\ [][Next]_vars

\* the crawl with the record last, up to MaxTraced transactions
SpecTraced == InitTraced /\ [][Next]_vars

(***************************************************************************)
(* The crawl with every request answered or failed in the end.  The spider *)
(* keeps no count of the restarts of a group, so the errback runs however   *)
(* often the vote fails.  attempt and votes are records of the model; past *)
(* MaxRestarts restarts they are left as they are: the server's values of  *)
(* the last attempt are issued again, and the failure is one of a          *)
(* submission that was never delivered.                                    *)
(***************************************************************************)
handle_vote_failure_again(g) ==
    /\ status[g] = "Pending"
    /\ req[g].errback = "handle_vote_failure"
    /\ Restarts >= MaxRestarts
    /\ LET failure == [request |-> req[g]]
           group == failure.request.meta["group"]
       IN  /\ \E request \in scheduled(send_group_to_vote(group)) :
                req' = [req EXCEPT ![g] = request]
           /\ Trace(g, "handle_vote_failure", failure.request, NoResponse, NoException)
    /\ Handled(g, 1)
    /\ UNCHANGED <<final_decision, started, status, attempt, results, now, traced, votes,
                   call_vars>>

NextFair ==
    \/ Next
    \/ \E g \in Group : handle_vote_failure_again(g)

\* The engine pulls every start request, and hands every outstanding
\* request back to the spider: as a response to its callback, or as a
\* failure to its errback or to the log.
SpecFair ==
    /\ Init
    /\ [][NextFair]_vars
    /\ WF_vars(start_requests)
    /\ \A g \in 1..5 :
            WF_vars(\/ parse(g) \/ parse_hastorni_js_file(g) \/ parse_daxiongmao_js_file(g)
                    \/ parse_voting_result(g) \/ download_failed(g)
                    \/ handle_vote_failure(g) \/ handle_vote_failure_again(g))

(***************************************************************************)
(* get_session_cookies alone, on every header value of up to MaxHeaderLen  *)
(* tokens.                                                                 *)
(***************************************************************************)
HeaderTokens == {"session", "=", ";", " ", "XYZ"}

HeaderValues == UNION {[1..n -> HeaderTokens] : n \in 0..MaxHeaderLen}

call_get_session_cookies ==
    /\ cookie_result = NotCalled
    /\ \E headers \in {EmptyDict} \cup {SetCookie(value) : value \in HeaderValues} :
        /\ cookie_header' = Some(headers)
        /\ cookie_result' = get_session_cookies(headers)
    /\ UNCHANGED <<crawl_vars, called, calls>>

NextSession == call_get_session_cookies

SpecSession == Init /\ [][NextSession]_vars

(***************************************************************************)
(* The extraction routines alone, each called once on an input drawn from  *)
(* a bounded set.                                                          *)
(***************************************************************************)
\* a routine is called: the call is recorded
Extract(routine, given, outcome) ==
    /\ called' = [routine |-> routine, given |-> given, outcome |-> outcome]
    /\ calls' = Append(calls, called')
    /\ UNCHANGED <<crawl_vars, cookie_vars>>

\* the letter maps hastorni.js can hold: some of the letters, each with a code
LetterCodes == {5, 7, 120}
LetterMaps == UNION {[letters -> LetterCodes] : letters \in SUBSET NameLetters}

\* the kretzoi literal of a letter map
MapLiteral(letters_map) ==
    LET letters == SelectSeq(<<"A", "B", "C">>, LAMBDA l : l \in DOMAIN letters_map)
    IN  <<"{">> \o join(<<",", " ">>,
                        [i \in 1..Len(letters) |->
                            <<"\"", letters[i], "\"", ":", " ">>
                                \o str_int(letters_map[letters[i]])])
                \o <<"}">>

\* a group name and a hastorni.js with a letter map
RatsInputs ==
    { [name |-> name, letters_map |-> letters_map,
       text |-> Script(Some(IdentityCodes(1, 1)), Some(MapLiteral(letters_map)))] :
        name \in Names, letters_map \in LetterMaps }

call_get_rats_hash(inputs) ==
    \E input \in inputs :
        Extract("get_rats_hash", input,
                get_rats_hash([text |-> input.text,
                               meta |-> [group |-> [name |-> input.name]]]))

\* the ursidae literal of a list of character codes
CodesLiteral(codes) ==
    <<"[">> \o join(<<",", " ">>, [i \in 1..Len(codes) |-> str_int(codes[i])]) \o <<"]">>

\* lists of up to MaxNameLen codes of the characters b, e and |, and the
\* list of "||bear||"
CodeLists ==
    UNION {[1..n -> {98, 101, 124}] : n \in 0..MaxNameLen}
        \cup {<<124, 124, 98, 101, 97, 114, 124, 124>>}

\* a hastorni.js whose ursidae statement holds: a list of character codes;
\* a list with a code that is no code point; a JSON value that is no list of
\* integers; a text that is no JSON; and a hastorni.js without the statement
UrsidaeInputs ==
    { [kind |-> "codes", codes |-> codes,
       text |-> Script(Some(CodesLiteral(codes)), Some(MapText(Letters, 1, 1)))] :
        codes \in CodeLists }
    \cup
    { [kind |-> "no code point", codes |-> codes,
       text |-> Script(Some(CodesLiteral(codes)), Some(MapText(Letters, 1, 1)))] :
        codes \in {<<1114112>>, <<98, 0 - 1>>} }
    \cup
    { [kind |-> "no list of integers", codes |-> <<>>,
       text |-> Script(Some(literal), Some(MapText(Letters, 1, 1)))] :
        literal \in { <<"{", "}">>, <<"\"", "\"">>, <<"\"", "be", "\"">>, <<"5">>,
                      <<"null">>, <<"[", "true", "]">>, <<"[", "\"", "b", "\"", "]">>,
                      <<"[", "9", "8", ",", " ", "\"", "e", "\"", "]">>,
                      <<"{", "\"", "b", "\"", ":", " ", "9", "8", "}">>,
                      <<"[", "[", "9", "8", "]", "]">>,
                      <<"[", "9", "8", ",">>, <<"9", "8", " ", "1", "0", "1">>,
                      <<"[", "b", "]">> } }
    \cup
    { [kind |-> "absent", codes |-> <<>>,
       text |-> Script(None, Some(MapText(Letters, 1, 1)))] }

call_get_ursidae_name(inputs) ==
    \E input \in inputs :
        Extract("get_ursidae_name", input, get_ursidae_name(input.text))

\* a hastorni.js whose kretzoi statement holds: a letter map; a JSON value
\* of another shape; a text that is no JSON; and a hastorni.js without the
\* statement
MapInputs ==
    { [kind |-> "mapping", letters_map |-> letters_map,
       text |-> Script(Some(IdentityCodes(1, 1)), Some(MapLiteral(letters_map)))] :
        letters_map \in LetterMaps }
    \cup
    { [kind |-> "another shape", letters_map |-> <<>>,
       text |-> Script(Some(IdentityCodes(1, 1)), Some(literal))] :
        literal \in { <<"[", "5", ",", " ", "7", "]">>, <<"[", "]">>, <<"5">>,
                      <<"\"", "AB", "\"">>, <<"null">>, <<"true">> } }
    \cup
    { [kind |-> "no JSON", letters_map |-> <<>>,
       text |-> Script(Some(IdentityCodes(1, 1)), Some(literal))] :
        literal \in { <<"{", "\"", "A", "\"", ":", " ", "5">>, <<"{", "A", ":", "5", "}">>,
                      <<>> } }
    \cup
    { [kind |-> "absent", letters_map |-> <<>>,
       text |-> Script(Some(IdentityCodes(1, 1)), None)] }

call__get_letters_map(inputs) ==
    \E input \in inputs :
        Extract("_get_letters_map", input, _get_letters_map(input.text))

NextExtract ==
    /\ calls = <<>>
    /\ \/ call_get_rats_hash(RatsInputs)
       \/ call_get_ursidae_name(UrsidaeInputs)
       \/ call__get_letters_map(MapInputs)

\* no crawl: the spider is not started
InitExtract == Init /\ final_decision = "0"

SpecExtract == InitExtract /\ [][NextExtract]_vars

(***************************************************************************)
(* The extraction routines called one after another, up to MaxCalls times, *)
(* in any order, on what the server sent two transactions.                 *)
(***************************************************************************)
\* headers, documents and texts of responses to the first two transactions
RepeatHeaders ==
    { GoodCookieHeaders(issued("sid-form", 1, 1)),
      GoodCookieHeaders(issued("sid-payload", 1, 1)),
      EmptyDict }
RepeatDocuments == { GoodDocument(1, 1), GoodDocument(2, 1), <<>> }
RepeatTexts ==
    { Script(Some(IdentityCodes(g, 1)),
             Some(MapText(<<"_", "a", "b", "e", "f", "i", "m", "n", "o", "r", "t", "u">>,
                          g, 1))) : g \in 1..2 }
        \cup { PayloadText(1, 1) }

call_get_session_cookies_on(inputs) ==
    \E input \in inputs :
        Extract("get_session_cookies", input, get_session_cookies(input.headers))

call_get_carnivore_value(inputs) ==
    \E input \in inputs :
        Extract("get_carnivore_value", input, get_carnivore_value([html |-> input.html]))

call_get_rogue_racoons_hash(inputs) ==
    \E input \in inputs :
        Extract("get_rogue_racoons_hash", input, get_rogue_racoons_hash(input.text))

NextRepeat ==
    /\ Len(calls) < MaxCalls
    /\ \/ call_get_session_cookies_on({[headers |-> headers] : headers \in RepeatHeaders})
       \/ call_get_carnivore_value({[html |-> html] : html \in RepeatDocuments})
       \/ call_get_ursidae_name({[text |-> text] : text \in RepeatTexts})
       \/ call__get_letters_map({[text |-> text] : text \in RepeatTexts})
       \/ call_get_rats_hash({[name |-> groups_for("0")[g].name, text |-> text] :
                                g \in 1..2, text \in RepeatTexts})
       \/ call_get_rogue_racoons_hash({[text |-> text] : text \in RepeatTexts})

SpecRepeat == InitExtract /\ [][NextRepeat]_vars

(***************************************************************************)
(* Properties.                                                             *)
(***************************************************************************)
\* the stage of a transaction whose request is r: 1 form page, 2 hastorni.js,
\* 3 daxiongmao.js, 4 vote; 0 without a request
StageOf(r) ==
    CASE r.callback = "parse" -> 1
      [] r.callback = "parse_hastorni_js_file" -> 2
      [] r.callback = "parse_daxiongmao_js_file" -> 3
      [] r.callback = "parse_voting_result" -> 4
      [] OTHER -> 0

\* the step is the failed download of the request transaction g has under
\* way
TransportFailure(g) ==
    /\ last'.group = g
    /\ last'.response = NoResponse
    /\ last'.request = req[g]

\* r is a form page request for the group of transaction g, as
\* send_group_to_vote builds it
IsFormPageRequest(r, g) ==
    /\ r.callback = "parse"
    /\ r.url = form_page_url
    /\ r.method = "GET"
    /\ r.cookies = EmptyDict
    /\ r.formdata = EmptyDict
    /\ r.meta["group"] = groups[g]

ExtractionStages == {"parse", "parse_hastorni_js_file", "parse_daxiongmao_js_file"}

\* the response a callback was given lacks something the callback extracts:
\* the Set-Cookie header or the value of the input (stage 1), the ursidae or
\* the kretzoi statement or a letter of the group name (stage 2), the
\* rogue_racoons value or the Set-Cookie header (stage 3)
Lacking(e) ==
    CASE e.handler = "parse" ->
            \/ "Set-Cookie" \notin DOMAIN e.response.headers
            \/ \A i \in DOMAIN e.response.html : "value" \notin DOMAIN e.response.html[i].attrib
      [] e.handler = "parse_hastorni_js_file" ->
            \/ ~contains(e.response.text, "ursidae = ")
            \/ ~contains(e.response.text, "kretzoi = ")
            \/ \E i \in DOMAIN Chars[e.request.meta["group"].name] :
                    ~contains(e.response.text, Chars[e.request.meta["group"].name][i])
      [] e.handler = "parse_daxiongmao_js_file" ->
            \/ "Set-Cookie" \notin DOMAIN e.response.headers
            \/ ~contains(e.response.text, "oons\" value=\"")
      [] OTHER -> FALSE

\* C2: a callback of stage 1, 2 or 3 that is given a response lacking what it
\* extracts raises; a callback that raises leaves the transaction failed,
\* without a request; and a failed transaction stays failed, without a
\* request and without a new attempt.
C2_ExtractionFailureIsFinal ==
    [][\A g \in Group :
        /\ (last'.group = g /\ last'.handler \in ExtractionStages /\ Lacking(last'))
                => Raised(last'.raised)
        /\ (last'.group = g /\ last'.handler \in ExtractionStages /\ Raised(last'.raised))
                => /\ status'[g] = "Failed"
                   /\ StageOf(req'[g]) = 0
                   /\ attempt'[g] = attempt[g]
        /\ status[g] = "Failed"
                => /\ status'[g] = "Failed"
                   /\ StageOf(req'[g]) = 0
                   /\ attempt'[g] = attempt[g]]_vars

\* C2, witness: parse_hastorni_js_file raised KeyError for a letter the map
\* does not hold and the transaction is failed
C2_UnknownLetterFailed ==
    \E g \in Group :
        /\ last.group = g
        /\ last.handler = "parse_hastorni_js_file"
        /\ last.raised.exc = "KeyError"
        /\ status[g] = "Failed"
        /\ StageOf(req[g]) = 0

\* C3: of the requests of a transaction only the vote (stage 4) has an
\* errback; when the download of a stage 1, 2 or 3 request fails no handler
\* of the spider runs and the transaction is failed, without a request and
\* without a new attempt.
C3_NoRetryBeforeTheVote ==
    [][\A g \in Group :
        /\ StageOf(req[g]) \in 1..3 => req[g].errback = "none"
        /\ StageOf(req[g]) = 4 => req[g].errback = "handle_vote_failure"
        /\ (StageOf(req[g]) \in 1..3 /\ TransportFailure(g))
                => /\ last'.handler = "none"
                   /\ status'[g] = "Failed"
                   /\ StageOf(req'[g]) = 0
                   /\ attempt'[g] = attempt[g]]_vars

\* C3, witness: the download of daxiongmao.js failed and the transaction is
\* failed
C3_PayloadDownloadFailed ==
    \E g \in Group :
        /\ last.group = g
        /\ StageOf(last.request) = 3
        /\ last.response = NoResponse
        /\ status[g] = "Failed"
        /\ StageOf(req[g]) = 0

\* C4: the request of a transaction changes only from none to stage 1 (the
\* start), from stage k to stage k + 1 within the attempt, from stage 4 to
\* stage 1 of a new attempt, or to none; and it moves from stage k to stage
\* k + 1 only in a step that ran the callback of the stage k request on a
\* response to that request and raised nothing.
C4_StagesInOrder ==
    [][\A g \in Group :
        LET k == StageOf(req[g])
            next_k == StageOf(req'[g])
        IN  /\ next_k = k => req'[g] = req[g]
            /\ next_k # k =>
                \/ next_k = 0
                \/ k = 0 /\ next_k = 1 /\ status[g] = "Unsent"
                \/ k = 4 /\ next_k = 1 /\ attempt'[g] = attempt[g] + 1
                \/ /\ k \in 1..3
                   /\ next_k = k + 1
                   /\ attempt'[g] = attempt[g]
                   /\ last'.group = g
                   /\ last'.handler = req[g].callback
                   /\ last'.request = req[g]
                   /\ last'.response.request = req[g]
                   /\ ~Raised(last'.raised)]_vars

\* C4, witness: the first attempt of a transaction has gone through the form
\* page, hastorni.js and daxiongmao.js and its vote is under way
C4_VoteUnderWay ==
    \E g \in Group :
        /\ attempt[g] = 1
        /\ StageOf(req[g]) = 4
        /\ last.group = g
        /\ last.handler = "parse_daxiongmao_js_file"

\* what the server issued to attempt a of transaction g, and what the
\* program derives from it: the identity name, the rats hash of the group
\* name under the letter map, the session cookie, the daxiongmao.js URL
OwnName(g, a) ==
    <<"|", "|", "b", "e", "a", "r", DigitChar[g + 1], DigitChar[a + 1], "|", "|">>

OwnRats ==
    Table([g \in Transactions, a \in Attempts |->
            LET letters == Chars[groups_for("0")[g].name]
            IN  b64encode(encode_utf8(join(<<"|">>,
                    [i \in 1..Len(letters) |-> str_int(LetterCode(letters[i], g, a))])))])

OwnSession(kind, g, a) == (<<"session">> :> <<issued(kind, g, a)>>)

OwnUrl ==
    Table([g \in Transactions, a \in Attempts, platform \in Platforms |->
            <<"https://panda.belvo.io", "/daxiongmao.js", "?", issued("carnivore", g, a),
              "=">>
                \o b64encode(encode_utf8(Chars[platform.ua] \o OwnName(g, a)
                                            \o Chars[platform.os]))
                \o <<"&", "key", "=", "aadfa">>])

\* the request of transaction g carries the group of g, one platform of
\* all_platforms, and nothing but what the server issued to this attempt of g
OwnData(g) ==
    LET r == req[g]
        a == attempt[g]
        k == StageOf(r)
    IN  k >= 1 =>
            /\ r.meta["group"] = groups[g]
            /\ \E platform \in Platforms :
                /\ r.headers["user-agent"] = platform.ua
                /\ k \in 1..2 => r.meta["os"] = platform.os
                /\ k = 3 => r.url = OwnUrl[g, a, platform]
            /\ k = 1 => r.cookies = EmptyDict
            /\ k = 2 => /\ r.cookies = OwnSession("sid-form", g, a)
                        /\ r.meta["carnivore_value"] = <<issued("carnivore", g, a)>>
            /\ k = 3 => /\ r.cookies = OwnSession("sid-form", g, a)
                        /\ r.meta["rats_hash"] = OwnRats[g, a]
            /\ k = 4 => /\ r.cookies = OwnSession("sid-payload", g, a)
                        /\ r.formdata.rogue_racoons = <<issued("racoons", g, a)>>
                        /\ r.formdata.rats = OwnRats[g, a]
                        /\ r.formdata.username = groups[g].name
                        /\ r.formdata.survive = groups[g].vote

\* C5: in every step of the crawl, whatever the order in which the callbacks
\* of the transactions run, the request a transaction is left with carries
\* only its own data (group, session cookie, form token, rats hash, payload
\* token, identity name), and a request of the next stage keeps the platform
\* (user agent, operating system) of the request before it.
C5_NothingShared ==
    [][\A g \in Group :
        /\ OwnData(g)'
        /\ (StageOf(req[g]) \in 1..3 /\ StageOf(req'[g]) = StageOf(req[g]) + 1)
                => /\ req'[g].headers = req[g].headers
                   /\ StageOf(req[g]) = 1 => req'[g].meta["os"] = req[g].meta["os"]]_vars

\* C5, witness: two transactions are under way at once on different
\* platforms, one at its vote and one past hastorni.js
C5_TwoUnderWay ==
    \E g, h \in Group :
        /\ g # h
        /\ StageOf(req[g]) = 4
        /\ StageOf(req[h]) >= 3
        /\ req[g].headers # req[h].headers

\* C6: the vote request of a transaction is a POST to the voting URL with
\* exactly the fields rogue_racoons, username, survive and rats: the
\* rogue_racoons value of this attempt's daxiongmao.js, the name and the vote
\* ("0" or "1") of the group the transaction was started for, and the rats
\* hash of that name under this attempt's letter map.
C6_VoteForm ==
    \A g \in Group :
        StageOf(req[g]) = 4 =>
            /\ req[g].method = "POST"
            /\ req[g].url = voting_url
            /\ DOMAIN req[g].formdata = {"rogue_racoons", "username", "survive", "rats"}
            /\ req[g].formdata.rogue_racoons = <<issued("racoons", g, attempt[g])>>
            /\ req[g].formdata.username = groups[g].name
            /\ req[g].formdata.survive = groups[g].vote
            /\ req[g].formdata.survive \in {"0", "1"}
            /\ req[g].formdata.rats = OwnRats[g, attempt[g]]

\* C6, witness: the vote of the second attempt of a transaction is under way
C6_VoteAfterRestart ==
    \E g \in Group : StageOf(req[g]) = 4 /\ attempt[g] = 2

\* C7: after parse_voting_result ran on a response: if the text holds
\* "pandas_future" (with or without "Thank you bea") the transaction is
\* ElectionClosed when the text is JSON and failed with "Could not read
\* election result: " when it is not; if it holds only "Thank you bea" the
\* transaction is Accepted; if it holds neither the transaction is failed
\* with "Response page not expected: " and the text.
C7_Classification ==
    \A g \in Group :
        (last.group = g /\ last.handler = "parse_voting_result") =>
            LET text == last.response.text
                thanks == contains(text, "Thank you bea")
                election == contains(text, "pandas_future")
            IN  /\ (election /\ ~Raised(json_loads(text)))
                        => status[g] = "ElectionClosed" /\ ~Raised(last.raised)
                /\ (election /\ Raised(json_loads(text)))
                        => /\ status[g] = "Failed"
                           /\ last.raised.exc = "ValueError"
                           /\ last.raised.msg[1] = "Could not read election result: "
                /\ (~election /\ thanks)
                        => status[g] = "Accepted" /\ ~Raised(last.raised)
                /\ (~election /\ ~thanks)
                        => /\ status[g] = "Failed"
                           /\ last.raised.exc = "ValueError"
                           /\ last.raised.msg = <<"Response page not expected: ", text>>

\* C7, witness: a response with both messages that is JSON closed the election
C7_BothMarkersClosed ==
    \E g \in Group :
        /\ last.group = g
        /\ last.handler = "parse_voting_result"
        /\ contains(last.response.text, "Thank you bea")
        /\ contains(last.response.text, "pandas_future")
        /\ status[g] = "ElectionClosed"

\* C8: results/ holds one file for every transaction that is ElectionClosed.
C8_OneArtifactEach ==
    Cardinality(DOMAIN results) = Cardinality({g \in Group : status[g] = "ElectionClosed"})

\* a callback of transaction g can run
CanStep(g) ==
    \/ parse(g)
    \/ parse_hastorni_js_file(g)
    \/ parse_daxiongmao_js_file(g)
    \/ parse_voting_result(g)

\* C9: whenever a transaction has failed or has been restarted, every other
\* transaction that has a request under way can run its callback.
C9_OthersNotBlocked ==
    \A g, h \in Group :
        (g # h /\ (status[h] = "Failed" \/ attempt[h] >= 2) /\ status[g] = "Pending")
            => ENABLED CanStep(g)

\* C9, witness: one transaction is failed after a restart, another is under
\* way past the form page
C9_OneFailedOneUnderWay ==
    \E g, h \in Group :
        /\ g # h
        /\ status[h] = "Failed"
        /\ attempt[h] >= 2
        /\ status[g] = "Pending"
        /\ StageOf(req[g]) >= 2

\* an attribute of the form session=<value>
IsSessionAttribute(attribute) ==
    Len(attribute) >= 2 /\ attribute[1] = "session" /\ attribute[2] = "="

\* C10: for a Set-Cookie value whose semicolon-delimited attributes include
\* one of the form session=<value>, get_session_cookies returns "session" and
\* everything after the first "=" of the first such attribute.
C10_ExtractSession ==
    (cookie_header # None /\ "Set-Cookie" \in DOMAIN cookie_header[1]) =>
        LET attributes == split(cookie_header[1]["Set-Cookie"][1], ";")
            sessions == {i \in DOMAIN attributes : IsSessionAttribute(attributes[i])}
            first == attributes[Min(sessions)]
        IN  sessions # {} =>
                /\ cookie_result.exc = ""
                /\ cookie_result.val = <<<<"session">>, SubSeq(first, 3, Len(first))>>

\* the key of a cookie attribute: what stands before its first "=", blanks
\* before and after it left out
KeyOf(attribute) ==
    LET eq == IndexOf(attribute, "=", 1)
        upto == IF eq = 0 THEN Len(attribute) ELSE eq - 1
    IN  SelectSeq(SubSeq(attribute, 1, upto), LAMBDA token : token # " ")

\* the Set-Cookie value holds no attribute whose key is "session"
NoSessionKey(value) ==
    LET attributes == split(value, ";")
    IN  \A i \in DOMAIN attributes : KeyOf(attributes[i]) # <<"session">>

\* the handler of the record e raised a ValueError with the message and left
\* its transaction failed, without a request
FailedWith(e, message) ==
    /\ e.raised = Raise("ValueError", message)
    /\ status[e.group] = "Failed"
    /\ req[e.group] = NoRequest

\* C11: when parse (stage 1) or parse_daxiongmao_js_file (stage 3, its
\* rogue_racoons value found) is given a response without a Set-Cookie
\* header, get_session_cookies raises "No 'Set-Cookie' header found"; when
\* the header is there but none of its attributes has the key "session", it
\* raises "Session cookie not found"; either way nothing is returned, the
\* callback yields no request and the transaction is failed.
C11_NoSessionNoRequest ==
    (\/ last.handler = "parse"
     \/ /\ last.handler = "parse_daxiongmao_js_file"
        /\ contains(last.response.text, "oons\" value=\""))
    =>  /\ "Set-Cookie" \notin DOMAIN last.response.headers
            => FailedWith(last, "No 'Set-Cookie' header found in the response.")
        /\ ("Set-Cookie" \in DOMAIN last.response.headers
                /\ NoSessionKey(last.response.headers["Set-Cookie"][1]))
            => FailedWith(last, "Session cookie not found in Set-Cookie.")

\* C11, witness: parse was given a form page whose Set-Cookie header sets
\* only a cookie named sessionid, and the transaction is failed
C11_UnrelatedCookieFailed ==
    /\ last.handler = "parse"
    /\ "Set-Cookie" \in DOMAIN last.response.headers
    /\ contains(last.response.headers["Set-Cookie"][1], "sessionid")
    /\ last.raised.exc = "ValueError"
    /\ status[last.group] = "Failed"

\* the input elements under the element with id carnivoreatingbambu
TargetInputs(html) ==
    SelectSeq(html, LAMBDA e : e.within = "carnivoreatingbambu" /\ e.tag = "input")

\* C12: when parse has read the session and calls get_carnivore_value, a
\* document without an input under #carnivoreatingbambu makes it raise
\* "Input element with id 'carnivoreatingbambu' not found", a document whose
\* input has no value attribute makes it raise "Value attribute not found",
\* and any other document gives the value attribute, which the next request
\* carries as carnivore_value.
C12_FormTokenFailures ==
    (last.handler = "parse" /\ ~Raised(get_session_cookies_of[last.response.headers]))
    =>  LET inputs == TargetInputs(last.response.html)
        IN  IF inputs = <<>>
            THEN FailedWith(last, "Input element with id 'carnivoreatingbambu' not found in the response.")
            ELSE IF "value" \notin DOMAIN inputs[1].attrib
            THEN FailedWith(last, "Value attribute not found in the input element.")
            ELSE /\ ~Raised(last.raised)
                 /\ req[last.group].meta["carnivore_value"] = inputs[1].attrib["value"]

\* the six bits a base64 character stands for
B64Value(c) == (CHOOSE i \in 1..64 : B64Alphabet[i] = c) - 1

\* the text a base64 string of printable ASCII stands for
b64decode(chars) ==
    LET padding == Cardinality({i \in 1..Len(chars) : chars[i] = "="})
        v(i) == IF chars[i] = "=" THEN 0 ELSE B64Value(chars[i])
        byte(k, j) ==
            CASE j = 1 -> v(4 * k - 3) * 4 + v(4 * k - 2) \div 16
              [] j = 2 -> (v(4 * k - 2) % 16) * 16 + v(4 * k - 1) \div 4
              [] j = 3 -> (v(4 * k - 1) % 4) * 64 + v(4 * k)
    IN  [i \in 1..(3 * (Len(chars) \div 4) - padding) |->
            chr(byte((i + 2) \div 3, ((i - 1) % 3) + 1))]

\* a natural number in decimal
RECURSIVE Decimal(_)
Decimal(n) ==
    IF n < 10 THEN <<DigitChar[n + 1]>>
    ELSE Decimal(n \div 10) \o <<DigitChar[(n % 10) + 1]>>

\* the codes of the letters, in decimal, with "|" between them
RECURSIVE PipeJoined(_, _)
PipeJoined(letters, letters_map) ==
    IF letters = <<>> THEN <<>>
    ELSE IF Len(letters) = 1 THEN Decimal(letters_map[letters[1]])
    ELSE Decimal(letters_map[letters[1]]) \o <<"|">>
            \o PipeJoined(Tail(letters), letters_map)

\* C13: for a group name and a letter map that holds every character of the
\* name, get_rats_hash returns a base64 string that decodes to the codes of
\* the name's characters, in the order of the name, in decimal and joined
\* with "|"; for a name with a character the map does not hold it raises
\* KeyError and returns nothing.
C13_RatsHash ==
    called.routine = "get_rats_hash" =>
        LET letters == CHOOSE l \in NameSpellings : Spelled(l) = called.given.name
            letters_map == called.given.letters_map
        IN  IF \A i \in DOMAIN letters : letters[i] \in DOMAIN letters_map
            THEN /\ called.outcome.exc = ""
                 /\ b64decode(called.outcome.val) = PipeJoined(letters, letters_map)
            ELSE called.outcome.exc = "KeyError"

\* C13, witness: the name "AB" under the map {A: 5, B: 7} gave "NXw3", the
\* base64 of "5|7"
C13_FiveSeven ==
    /\ called.routine = "get_rats_hash"
    /\ called.given.name = "AB"
    /\ called.given.letters_map = ("A" :> 5 @@ "B" :> 7)
    /\ called.outcome = Return(<<"N", "X", "w", "3">>)

\* the characters of the codes the lists are drawn from
CodeChar == (97 :> "a" @@ 98 :> "b" @@ 101 :> "e" @@ 114 :> "r" @@ 124 :> "|")

\* C14: get_ursidae_name gives, for a list of character codes, the string
\* of their characters in the same order and of the same length; it raises
\* "Char codes for Ursidae name not found" when the statement is absent, one
\* of "Char codes string is not a valid JSON object" and "Input is not a
\* list of character codes" when the captured text is not a list of
\* integers, and "chr() arg not in range" when an integer is no code point.
C14_IdentityName ==
    called.routine = "get_ursidae_name" =>
        CASE called.given.kind = "codes" ->
                /\ called.outcome.exc = ""
                /\ called.outcome.val =
                        [i \in 1..Len(called.given.codes) |-> CodeChar[called.given.codes[i]]]
          [] called.given.kind = "absent" ->
                called.outcome =
                    Raise("ValueError",
                          "Char codes for Ursidae name not found in response text.")
          [] called.given.kind = "no list of integers" ->
                /\ called.outcome.exc = "ValueError"
                /\ called.outcome.msg \in
                        {"Char codes string is not a valid JSON object.",
                         "Input is not a list of character codes."}
          [] called.given.kind = "no code point" ->
                called.outcome = Raise("ValueError", "chr() arg not in range(0x110000)")

\* C15: _get_letters_map raises "Map not found in the response" when the
\* kretzoi statement is absent and "Error decoding map" when the captured
\* text is not a key/value mapping, be it no JSON at all or a JSON list,
\* number, string, null or boolean; for a mapping it returns the mapping.
C15_LetterMap ==
    called.routine = "_get_letters_map" =>
        CASE called.given.kind = "absent" ->
                called.outcome = Raise("ValueError", "Map not found in the response.")
          [] called.given.kind \in {"another shape", "no JSON"} ->
                called.outcome = Raise("ValueError", "Error decoding map")
          [] called.given.kind = "mapping" ->
                /\ called.outcome.exc = ""
                /\ called.outcome.val.t = "dict"
                /\ {<<item[1][1], item[2]>> :
                        item \in {called.outcome.val.v[i] : i \in DOMAIN called.outcome.val.v}}
                    = {<<letter, PyInt(called.given.letters_map[letter])>> :
                        letter \in DOMAIN called.given.letters_map}

Fields ==
    {"sessionCookie", "platformProfile", "formToken", "identityName", "groupHash",
     "payloadToken"}

\* the value of a field in the request r, None if r does not carry it: the
\* session cookie; the user agent; the carnivore value in meta; the hash of
\* the identity name in the daxiongmao.js URL; the rats hash in meta or in
\* the form; the rogue_racoons value in the form
Field(r, f) ==
    IF StageOf(r) = 0 THEN None
    ELSE CASE f = "sessionCookie" -> dict_get(r.cookies, <<"session">>)
           [] f = "platformProfile" -> dict_get(r.headers, "user-agent")
           [] f = "formToken" -> dict_get(r.meta, "carnivore_value")
           [] f = "identityName" ->
                IF StageOf(r) = 3 THEN Some(SubSeq(r.url, 6, Len(r.url) - 4)) ELSE None
           [] f = "groupHash" ->
                IF StageOf(r) = 4 THEN Some(r.formdata.rats) ELSE dict_get(r.meta, "rats_hash")
           [] f = "payloadToken" ->
                IF StageOf(r) = 4 THEN Some(r.formdata.rogue_racoons) ELSE None

\* the step gives the field f of transaction g a value
SetIn(g, f) == Field(req'[g], f) # None /\ Field(req'[g], f) # Field(req[g], f)

\* the stage whose completion sets a field; the platform profile is set as
\* the form page request is scheduled, before stage 1
Producer(f) ==
    CASE f = "platformProfile" -> 0
      [] f \in {"sessionCookie", "formToken"} -> 1
      [] f \in {"identityName", "groupHash"} -> 2
      [] f = "payloadToken" -> 3

\* the request r carries what the callback of its stage reads
ReadsReady(r) ==
    /\ StageOf(r) >= 1 => "group" \in DOMAIN r.meta
    /\ StageOf(r) \in 1..3 => Field(r, "platformProfile") # None
    /\ StageOf(r) \in 1..2 => "os" \in DOMAIN r.meta
    /\ StageOf(r) = 2 => Field(r, "formToken") # None
    /\ StageOf(r) \in 2..3 => Field(r, "sessionCookie") # None
    /\ StageOf(r) = 3 => Field(r, "groupHash") # None

\* the fields in fs are each set once in an attempt, by their producing
\* stage, and a request carries what its callback reads
SetOnce(fs) ==
    \A g \in Group :
        /\ ReadsReady(req'[g])
        /\ \A f \in fs :
            SetIn(g, f) =>
                IF attempt'[g] # attempt[g]
                THEN f = "platformProfile"
                ELSE /\ StageOf(req[g]) = Producer(f)
                     /\ Field(req[g], f) = None

\* C17 as stated: within an attempt every field of the transaction state,
\* the session cookie included, is given a value only once, in the step
\* that completes its producing stage, and the request of a stage carries
\* every field the callback of that stage reads.
C17_EveryFieldSetOnce == [][SetOnce(Fields)]_vars

\* C17: within an attempt each of platformProfile, formToken, identityName,
\* groupHash and payloadToken is given a value only once, in the step that
\* completes its producing stage; sessionCookie is given a value in the step
\* that completes stage 1 and again in the step that completes stage 3; and
\* the request of a stage carries every field the callback of that stage
\* reads.
C17_FieldsSetOnceSessionTwice ==
    [][/\ SetOnce(Fields \ {"sessionCookie"})
       /\ \A g \in Group :
            SetIn(g, "sessionCookie") =>
                /\ attempt'[g] = attempt[g]
                /\ \/ StageOf(req[g]) = 1 /\ Field(req[g], "sessionCookie") = None
                   \/ StageOf(req[g]) = 3 /\ Field(req[g], "sessionCookie") # None]_vars

\* C17, witness: parse_daxiongmao_js_file has yielded the vote, which
\* carries every field it needs and another session cookie than the
\* daxiongmao.js request carried
C17_SessionSetAgain ==
    /\ last.handler = "parse_daxiongmao_js_file"
    /\ StageOf(req[last.group]) = 4
    /\ Field(req[last.group], "payloadToken") # None
    /\ Field(req[last.group], "groupHash") # None
    /\ Field(req[last.group], "sessionCookie") # Field(last.request, "sessionCookie")

\* the session value a response sets: what stands between "session=" and
\* the next ";" of its Set-Cookie header
SessionSetBy(response) ==
    LET value == response.headers["Set-Cookie"][1]
        semicolon == IndexOf(value, ";", 1)
    IN  SubSeq(value, 3, IF semicolon = 0 THEN Len(value) ELSE semicolon - 1)

\* the only cookie of the request r is the session cookie with the value
CarriesSession(r, value) == r.cookies = (<<"session">> :> value)

\* C18: within an attempt, the hastorni.js request carries the session value
\* the form page response set, the daxiongmao.js request carries the same
\* value, and the vote carries the session value the daxiongmao.js response
\* set, not the one of the form page response when the two differ.
C18_SessionThreaded ==
    [][\A g \in Group :
        (attempt'[g] = attempt[g] /\ StageOf(req'[g]) = StageOf(req[g]) + 1) =>
            /\ StageOf(req[g]) = 1 =>
                    /\ last'.response.request = req[g]
                    /\ CarriesSession(req'[g], SessionSetBy(last'.response))
            /\ StageOf(req[g]) = 2 => req'[g].cookies = req[g].cookies
            /\ StageOf(req[g]) = 3 =>
                    /\ last'.response.request = req[g]
                    /\ CarriesSession(req'[g], SessionSetBy(last'.response))
                    /\ ~CarriesSession(req[g], SessionSetBy(last'.response))
                            => req'[g].cookies # req[g].cookies]_vars

\* C18, witness: the vote is under way with the session value of the
\* daxiongmao.js response, which is not the value the daxiongmao.js request
\* was sent with
C18_VoteCarriesRotatedSession ==
    \E g \in Group :
        /\ StageOf(req[g]) = 4
        /\ last.group = g
        /\ StageOf(last.request) = 3
        /\ CarriesSession(req[g], SessionSetBy(last.response))
        /\ ~CarriesSession(last.request, SessionSetBy(last.response))

\* the identity hash in the URL of a daxiongmao.js request: what stands
\* between "?<carnivore value>=" and "&key=aadfa"
IdentityHash(r) == SubSeq(r.url, 6, Len(r.url) - 4)

\* user agent, identity name and operating system, in this order and with
\* nothing between them, for a platform and attempt a of transaction g
PlatformText ==
    Table([platform \in Platforms, g \in Transactions, a \in Attempts |->
            Chars[platform.ua] \o OwnName(g, a) \o Chars[platform.os]])

\* what the base64 strings of these texts decode to
DecodedHash ==
    Table([hash \in {b64encode(encode_utf8(PlatformText[x])) : x \in DOMAIN PlatformText} |->
            b64decode(hash)])

\* the request r of attempt a of transaction g carries the platform: its
\* user agent; with it, in meta, its operating system while the request is
\* of stage 1 or 2; and, at stage 3, a URL whose identity hash is the base64
\* of user agent, identity name and operating system in this order
CarriesPlatform(r, platform, g, a) ==
    /\ r.headers["user-agent"] = platform.ua
    /\ StageOf(r) \in 1..2 => r.meta["os"] = platform.os
    /\ StageOf(r) = 3 =>
            /\ IdentityHash(r) \in DOMAIN DecodedHash
            /\ DecodedHash[IdentityHash(r)] = PlatformText[platform, g, a]

CarriesFrom(r, g, a) ==
    \/ Field(r, "sessionCookie") \in {Some(<<issued("sid-form", g, a)>>),
                                        Some(<<issued("sid-payload", g, a)>>)}
    \/ Field(r, "formToken") = Some(<<issued("carnivore", g, a)>>)
    \/ /\ StageOf(r) = 3
       /\ \/ r.url[4] = issued("carnivore", g, a)
          \/ /\ IdentityHash(r) \in DOMAIN DecodedHash
             /\ \E platform \in Platforms :
                    DecodedHash[IdentityHash(r)] = PlatformText[platform, g, a]
    \/ Field(r, "groupHash") = Some(OwnRats[g, a])
    \/ Field(r, "payloadToken") = Some(<<issued("racoons", g, a)>>)

\* C20: the request handle_vote_failure leaves a transaction with carries
\* the group (name and vote) of the failed vote, the fake_platform mark and a
\* platform, and no cookie, form field or other meta; and no request of an
\* attempt carries a session, carnivore value, identity name, rats hash or
\* rogue_racoons value of an earlier attempt: the rats hash of an attempt is
\* the hash under the letter map of that attempt's hastorni.js.
C20_RestartIsFresh ==
    [][\A g \in Group :
        /\ (attempt[g] >= 1 /\ attempt'[g] = attempt[g] + 1) =>
                /\ StageOf(req[g]) = 4
                /\ StageOf(req'[g]) = 1
                /\ req'[g].url = form_page_url
                /\ req'[g].cookies = EmptyDict
                /\ req'[g].formdata = EmptyDict
                /\ DOMAIN req'[g].headers = {"user-agent"}
                /\ DOMAIN req'[g].meta = {"fake_platform", "group", "os"}
                /\ req'[g].meta["group"] = req[g].meta["group"]
                /\ req'[g].meta["group"].name = req[g].formdata.username
                /\ req'[g].meta["group"].vote = req[g].formdata.survive
        /\ \A a \in 1..(attempt'[g] - 1) : ~CarriesFrom(req'[g], g, a)
        /\ StageOf(req'[g]) = 3 => Field(req'[g], "groupHash") = Some(OwnRats[g, attempt'[g]])]_vars

\* C20, witness: the second attempt of a transaction is at its vote with the
\* rats hash under the second attempt's letter map, which is not the hash
\* under the first attempt's map
C20_SecondAttemptVotes ==
    \E g \in Group :
        /\ attempt[g] = 2
        /\ StageOf(req[g]) = 4
        /\ CarriesFrom(req[g], g, 2)
        /\ req[g].formdata.rats = OwnRats[g, 2]
        /\ OwnRats[g, 2] # OwnRats[g, 1]

\* C21: at every moment a group has at most one request outstanding, over
\* all of its attempts, and that request is the one of its current stage;
\* a group that has no request under way has none outstanding; so no more
\* requests are outstanding in total than there are groups, five.
C21_OneOutstandingEach ==
    /\ \A g \in Group :
        /\ outstanding[g] \in {0, 1}
        /\ outstanding[g] = 1 <=> StageOf(req[g]) \in 1..4
        /\ outstanding[g] = 1 => status[g] = "Pending"
    /\ SumTo(outstanding, Len(groups)) <= started
    /\ started <= Len(groups)
    /\ Len(groups) = 5

\* two groups with a request outstanding each, one of them the form page
\* request of a restart
C21_RestartedNextToAnother ==
    \E g, h \in Group :
        /\ g # h
        /\ outstanding[g] = 1 /\ attempt[g] = 2 /\ StageOf(req[g]) = 1
        /\ outstanding[h] = 1

\* C22: for every group the server records at most one vote over the whole
\* crawl, also when the failure of a submission is reported after the server
\* has processed it and the group is restarted.
C22_AtMostOneVote == \A g \in Group : votes[g] <= 1

\* C23: with every request answered or failed in the end, every group that
\* is started reaches Accepted, ElectionClosed or Failed and stays there
\* with no request issued for it any more, whatever failures its
\* submissions meet.
C23_EveryGroupTerminates ==
    \A g \in 1..MaxStarted :
        <>[](/\ status[g] \in {"Accepted", "ElectionClosed", "Failed"}
             /\ StageOf(req[g]) = 0
             /\ outstanding[g] = 0)
====
